---- MODULE Spec2Model ----
(***************************************************************************)
(* A model of the plugin-resolution and command-binding core of the        *)
(* kubebuilder scaffolding tool.                                           *)
(*                                                                         *)
(* Go strings are modelled as sequences of one-character strings, so that  *)
(* splitting a plugin key, taking a short name and parsing a version are   *)
(* computed the way the code computes them.                                *)
(***************************************************************************)
EXTENDS Integers, Sequences, FiniteSets, TLC

(***************************************************************************)
(* Bounds of the model.                                                    *)
(***************************************************************************)
\* Longest candidate list handed to resolvePluginsByKey.
MaxCandidates == 3

(***************************************************************************)
(* Strings.                                                                *)
(***************************************************************************)
Digits == {"0", "1", "2", "3", "4", "5", "6", "7", "8", "9"}

LowerAlpha == {"a", "b", "c", "d", "e", "f", "g", "h", "i", "j", "k", "l", "m",
               "n", "o", "p", "q", "r", "s", "t", "u", "v", "w", "x", "y", "z"}

DigitVal(c) == CASE c = "0" -> 0 [] c = "1" -> 1 [] c = "2" -> 2 [] c = "3" -> 3
                 [] c = "4" -> 4 [] c = "5" -> 5 [] c = "6" -> 6 [] c = "7" -> 7
                 [] c = "8" -> 8 [] c = "9" -> 9

\* strings.Index for a one-character separator: the first position of c in
\* s, 0 when s does not contain c.
IndexOf(s, c) ==
    IF \E i \in 1..Len(s) : s[i] = c
    THEN CHOOSE i \in 1..Len(s) : s[i] = c /\ \A j \in 1..(i - 1) : s[j] # c
    ELSE 0

\* strings.ContainsAny
ContainsAny(s, cs) == \E i \in 1..Len(s) : s[i] \in cs

\* strings.SplitN(s, sep, n) for n >= 1.
RECURSIVE SplitN(_, _, _)
SplitN(s, sep, n) ==
    LET i == IndexOf(s, sep)
    IN  IF n <= 1 \/ i = 0
        THEN <<s>>
        ELSE <<SubSeq(s, 1, i - 1)>> \o SplitN(SubSeq(s, i + 1, Len(s)), sep, n - 1)

\* strings.TrimPrefix for a one-character prefix.
TrimPrefix(s, c) == IF s # <<>> /\ s[1] = c THEN Tail(s) ELSE s

\* strconv.ParseUint of a string of decimal digits.
RECURSIVE ParseUint(_)
ParseUint(s) ==
    IF s = <<>> THEN 0
    ELSE 10 * ParseUint(SubSeq(s, 1, Len(s) - 1)) + DigitVal(s[Len(s)])

(***************************************************************************)
(* Plugin keys: "name/version".                                            *)
(***************************************************************************)
\* SplitKey splits a key into its name and its version ("" without a "/").
SplitKey(key) ==
    LET i == IndexOf(key, "/")
    IN  IF i = 0
        THEN [name |-> key, version |-> <<>>]
        ELSE [name |-> SubSeq(key, 1, i - 1), version |-> SubSeq(key, i + 1, Len(key))]

\* GetShortName returns the part of a name before its first ".".
GetShortName(name) ==
    LET i == IndexOf(name, ".")
    IN  IF i = 0 THEN name ELSE SubSeq(name, 1, i - 1)

(***************************************************************************)
(* semver.ParseTolerant (blang/semver v3.5.1), as the code calls it.       *)
(***************************************************************************)
\* A numeric component: digits only, not empty, no leading zero.
IsNumeric(s) ==
    /\ s # <<>>
    /\ \A i \in 1..Len(s) : s[i] \in Digits
    /\ (Len(s) > 1 => s[1] # "0")

\* A pre-release: dot-separated, non-empty alphanumeric identifiers, the
\* numeric ones without a leading zero.
IsPreRelease(s) ==
    LET ids == SplitN(s, ".", Len(s) + 1)
    IN  \A k \in 1..Len(ids) :
            /\ ids[k] # <<>>
            /\ \A i \in 1..Len(ids[k]) : ids[k][i] \in Digits \cup LowerAlpha \cup {"-"}
            /\ ((\A i \in 1..Len(ids[k]) : ids[k][i] \in Digits) => IsNumeric(ids[k]))

BadVersion == [ok |-> FALSE, Major |-> 0, Minor |-> 0, Patch |-> 0, Pre |-> <<>>]

\* semver.Parse on the three parts major, minor and patch(-prerelease).
SemverParse(parts) ==
    LET i     == IndexOf(parts[3], "-")
        patch == IF i = 0 THEN parts[3] ELSE SubSeq(parts[3], 1, i - 1)
        pre   == IF i = 0 THEN <<>> ELSE SubSeq(parts[3], i + 1, Len(parts[3]))
    IN  IF /\ IsNumeric(parts[1])
           /\ IsNumeric(parts[2])
           /\ IsNumeric(patch)
           /\ (i # 0 => IsPreRelease(pre))
        THEN [ok |-> TRUE, Major |-> ParseUint(parts[1]), Minor |-> ParseUint(parts[2]),
              Patch |-> ParseUint(patch), Pre |-> pre]
        ELSE BadVersion

\* ParseTolerant drops a leading "v" and fills a shortened version up with
\* ".0"; a shortened version may not carry a pre-release.
ParseTolerant(version) ==
    LET s     == TrimPrefix(version, "v")
        parts == SplitN(s, ".", 3)
        n     == Len(parts)
    IN  IF n < 3 /\ ContainsAny(parts[n], {"+", "-"})
        THEN BadVersion
        ELSE SemverParse(CASE n = 1 -> parts \o <<<<"0">>, <<"0">>>>
                           [] n = 2 -> parts \o <<<<"0">>>>
                           [] OTHER -> parts)

(***************************************************************************)
(* The plugin resolver.                                                    *)
(***************************************************************************)
NoErr == [fmt |-> "", arg |-> <<>>]

ErrNoVersionsMatch == "ambiguous plugin version %q: no versions match"

ErrNoNamesMatch == "ambiguous plugin name %q: no names match"

RECURSIVE findPluginsMatchingName(_, _)
findPluginsMatchingName(ps, name) ==
    IF ps = <<>> THEN <<>>
    ELSE (IF Head(ps).name = name THEN <<Head(ps)>> ELSE <<>>)
            \o findPluginsMatchingName(Tail(ps), name)

\* A slip: only the first plugin with the short name is kept.
FirstMatchingShortName(ps, shortName) ==
    LET hits == SelectSeq(ps, LAMBDA p : GetShortName(p.name) = shortName)
    IN  IF hits = <<>> THEN <<>> ELSE <<Head(hits)>>

\* A slip: the full name is compared where the short name should be.
FullNameForShortName(ps, shortName) ==
    SelectSeq(ps, LAMBDA p : p.name = shortName)

RECURSIVE findPluginsMatchingShortName(_, _)
findPluginsMatchingShortName(ps, shortName) ==
    IF ps = <<>> THEN <<>>
    ELSE (IF GetShortName(Head(ps).name) = shortName THEN <<Head(ps)>> ELSE <<>>)
            \o findPluginsMatchingShortName(Tail(ps), shortName)

\* The plugins of ps whose version has sv's major and the same minor (equal)
\* or another minor (matchingMajor), as the loop collects them.
RECURSIVE matchVersionLoop(_, _, _)
matchVersionLoop(ps, sv, sameMinor) ==
    IF ps = <<>> THEN <<>>
    ELSE LET pv == ParseTolerant(Head(ps).version)
         IN  (IF sv.Major = pv.Major /\ ((sv.Minor = pv.Minor) = sameMinor)
              THEN <<Head(ps)>> ELSE <<>>)
                \o matchVersionLoop(Tail(ps), sv, sameMinor)

\* A slip: the major-only matches are returned along with the exact ones.
MatchingVersionNoPreference(ps, version) ==
    LET sv == ParseTolerant(version)
    IN  matchVersionLoop(ps, sv, TRUE) \o matchVersionLoop(ps, sv, FALSE)

findPluginsMatchingVersion(ps, version) ==
    LET sv            == ParseTolerant(version)
        equal         == matchVersionLoop(ps, sv, TRUE)
        matchingMajor == matchVersionLoop(ps, sv, FALSE)
    IN  IF Len(equal) # 0 THEN equal ELSE matchingMajor

\* must() panics on a version that does not parse.
versionPanics(ps, version) ==
    \/ ~ParseTolerant(version).ok
    \/ \E i \in 1..Len(ps) : ~ParseTolerant(ps[i].version).ok

\* A slip: a fully-qualified name is matched by its short name.
ResolveByShortNameOnly(versionedPlugins, pluginKey) ==
    LET name      == SplitKey(pluginKey).name
        version   == SplitKey(pluginKey).version
        shortName == GetShortName(name)
        byVersion == IF version = <<>> THEN versionedPlugins
                     ELSE findPluginsMatchingVersion(versionedPlugins, version)
        byName    == findPluginsMatchingShortName(byVersion, shortName)
    IN  IF version # <<>> /\ versionPanics(versionedPlugins, version)
        THEN [done |-> TRUE, panic |-> TRUE, resolved |-> <<>>, err |-> NoErr]
        ELSE IF Len(byVersion) = 0
        THEN [done |-> TRUE, panic |-> FALSE, resolved |-> <<>>,
              err |-> [fmt |-> ErrNoVersionsMatch, arg |-> version]]
        ELSE IF Len(byName) = 0
        THEN [done |-> TRUE, panic |-> FALSE, resolved |-> <<>>,
              err |-> [fmt |-> ErrNoNamesMatch, arg |-> name]]
        ELSE [done |-> TRUE, panic |-> FALSE, resolved |-> byName, err |-> NoErr]

resolvePluginsByKey(versionedPlugins, pluginKey) ==
    LET name      == SplitKey(pluginKey).name
        version   == SplitKey(pluginKey).version
        shortName == GetShortName(name)
        byVersion == IF version = <<>> THEN versionedPlugins
                     ELSE findPluginsMatchingVersion(versionedPlugins, version)
        byName    == IF name = shortName
                     THEN findPluginsMatchingShortName(byVersion, shortName)
                     ELSE findPluginsMatchingName(byVersion, name)
    IN  IF version # <<>> /\ versionPanics(versionedPlugins, version)
        THEN [done |-> TRUE, panic |-> TRUE, resolved |-> <<>>, err |-> NoErr]
        ELSE IF Len(byVersion) = 0
        THEN [done |-> TRUE, panic |-> FALSE, resolved |-> <<>>,
              err |-> [fmt |-> ErrNoVersionsMatch, arg |-> version]]
        ELSE IF Len(byName) = 0
        THEN [done |-> TRUE, panic |-> FALSE, resolved |-> <<>>,
              err |-> [fmt |-> ErrNoNamesMatch, arg |-> name]]
        ELSE [done |-> TRUE, panic |-> FALSE, resolved |-> byName, err |-> NoErr]

(***************************************************************************)
(* Validation of plugin names, plugin versions and project versions.       *)
(***************************************************************************)
dns1123SubdomainMaxLength == 253

\* dns1123LabelFmt: [a-z0-9]([-a-z0-9]*[a-z0-9])?
MatchesDNS1123Label(l) ==
    /\ l # <<>>
    /\ \A i \in 1..Len(l) : l[i] \in LowerAlpha \cup Digits \cup {"-"}
    /\ l[1] # "-"
    /\ l[Len(l)] # "-"

\* IsDNS1123Subdomain: no error when the value is short enough and is a
\* sequence of labels joined by dots.
IsDNS1123Subdomain(value) ==
    /\ Len(value) <= dns1123SubdomainMaxLength
    /\ LET labels == SplitN(value, ".", Len(value) + 1)
       IN  \A k \in 1..Len(labels) : MatchesDNS1123Label(labels[k])

\* ValidateName: TRUE when the name is accepted.
ValidateName(name) == name # <<>> /\ IsDNS1123Subdomain(name)

\* ValidateVersion of package plugin, which cli.validate calls: tolerant
\* semver with a major and a minor version only.
ValidateVersion(version) ==
    /\ version # <<>>
    /\ LET v == ParseTolerant(version)
       IN  v.ok /\ v.Patch = 0 /\ v.Pre = <<>>

sAlpha == <<"a", "l", "p", "h", "a">>

sBeta == <<"b", "e", "t", "a">>

\* ValidateProjectVersion: ^[1-9][0-9]*(-(alpha|beta))?$
ValidateProjectVersion(version) ==
    LET i   == IndexOf(version, "-")
        num == IF i = 0 THEN version ELSE SubSeq(version, 1, i - 1)
        suf == IF i = 0 THEN <<>> ELSE SubSeq(version, i + 1, Len(version))
    IN  /\ version # <<>>
        /\ num # <<>>
        /\ num[1] \in Digits \ {"0"}
        /\ \A k \in 1..Len(num) : num[k] \in Digits
        /\ (i # 0 => suf \in {sAlpha, sBeta})

(***************************************************************************)
(* The cli: options, validation and the filter of plugins by the keys of   *)
(* the command line.  A plugin is a record of its Name(), its Version(),   *)
(* its SupportedProjectVersions() and the set caps of the Getter           *)
(* interfaces it implements ("init", "api", "webhook").                    *)
(***************************************************************************)
\* fmt.Errorf(fmt, arg)
Errorf(f, a) == [fmt |-> f, arg |-> a]

\* The orders in which a Go map with key set S can be ranged over.
Perms(S) ==
    { o \in [1..Cardinality(S) -> S] : \A i, j \in 1..Cardinality(S) : i # j => o[i] # o[j] }

\* strings.TrimLeft(s, c) for a one-character cutset.
RECURSIVE TrimLeft(_, _)
TrimLeft(s, c) == IF s # <<>> /\ s[1] = c THEN TrimLeft(Tail(s), c) ELSE s

\* plugin.Key: path.Join(name, "v" + strings.TrimLeft(version, "v"))
Key(name, version) == name \o <<"/", "v">> \o TrimLeft(version, "v")

\* plugin.KeyFrom: the name and the version of a key of the command line.
KeyFrom(key) == SplitKey(key)

\* One append of WithPlugins: c.pluginsFromOptions[version] gets p.
appendPlugin(pfo, version, p) ==
    [x \in (DOMAIN pfo) \cup {version} |->
        IF x = version
        THEN IF version \in DOMAIN pfo THEN Append(pfo[version], p) ELSE <<p>>
        ELSE pfo[x]]

RECURSIVE appendForVersions(_, _, _)
appendForVersions(pfo, versions, p) ==
    IF versions = <<>> THEN pfo
    ELSE appendForVersions(appendPlugin(pfo, Head(versions), p), Tail(versions), p)

\* WithPlugins: every plugin is appended to the list of each project version
\* it supports.
RECURSIVE WithPlugins(_, _)
WithPlugins(pfo, plugins) ==
    IF plugins = <<>> THEN pfo
    ELSE WithPlugins(appendForVersions(pfo, Head(plugins).supported, Head(plugins)),
                     Tail(plugins))

\* parseBaseFlags: the map of the keys given with --plugins, or the error.
RECURSIVE parsePluginKeys(_, _)
parsePluginKeys(pluginKeys, cliPluginKeys) ==
    IF pluginKeys = <<>> THEN [keys |-> cliPluginKeys, err |-> NoErr]
    ELSE LET k == KeyFrom(Head(pluginKeys))
         IN  IF k.name = <<>>
             THEN [keys |-> cliPluginKeys,
                   err |-> Errorf("plugin key %q must at least have a name", Head(pluginKeys))]
             ELSE IF k.name \in DOMAIN cliPluginKeys
             THEN [keys |-> cliPluginKeys,
                   err |-> Errorf("duplicate plugin name %q", k.name)]
             ELSE parsePluginKeys(Tail(pluginKeys),
                     [x \in (DOMAIN cliPluginKeys) \cup {k.name} |->
                         IF x = k.name THEN k.version ELSE cliPluginKeys[x]])

\* validate, for one list of c.pluginsFromOptions: the first error of the
\* loop over the list, NoErr when it has none.
RECURSIVE validatePlugins(_, _)
validatePlugins(versionedPlugins, pluginNameSet) ==
    IF versionedPlugins = <<>> THEN NoErr
    ELSE LET p == Head(versionedPlugins)
         IN  IF ~ValidateName(p.name)
             THEN Errorf("failed to validate plugin name %q: %v", p.name)
             ELSE IF ~ValidateVersion(p.version)
             THEN Errorf("failed to validate plugin %q version %q: %v", p.name)
             ELSE IF \E k \in 1..Len(p.supported) : ~ValidateProjectVersion(p.supported[k])
             THEN Errorf("failed to validate plugin %q supported project version %q: %v", p.name)
             ELSE IF p.name \in pluginNameSet
             THEN Errorf("two plugins have the same name: %q", p.name)
             ELSE validatePlugins(Tail(versionedPlugins), pluginNameSet \cup {p.name})

\* validate, for one key of the command line.
validateKey(pluginName, pluginVersion) ==
    IF ~ValidateName(pluginName)
    THEN Errorf("failed to validate plugin name %q: %v", pluginName)
    ELSE IF pluginVersion # <<>> /\ ~ValidateVersion(pluginVersion)
    THEN Errorf("failed to validate plugin %q version %q: %v", pluginName)
    ELSE NoErr

\* validate: the errors it can return, one for each order in which the maps
\* can be ranged over; the empty set when the cli is valid.
validate(defaultProjectVersion, projectVersion, pfo, cliPluginKeys) ==
    IF ~ValidateProjectVersion(defaultProjectVersion)
    THEN {Errorf("failed to validate default project version %q: %v", defaultProjectVersion)}
    ELSE IF ~ValidateProjectVersion(projectVersion)
    THEN {Errorf("failed to validate project version %q: %v", projectVersion)}
    ELSE LET pluginErrs == { validatePlugins(pfo[v], {}) : v \in DOMAIN pfo } \ {NoErr}
             keyErrs    == { validateKey(n, cliPluginKeys[n]) : n \in DOMAIN cliPluginKeys } \ {NoErr}
         IN  IF pluginErrs # {} THEN pluginErrs ELSE keyErrs

\* filterPluginsByKeys, the inner loop for one key of the command line: acc
\* holds definitelyMatch, maybeMatch[cliPluginKey] and hasDefinitely.
RECURSIVE matchKey(_, _, _, _)
matchKey(versionedPlugins, pluginName, pluginVersion, acc) ==
    IF versionedPlugins = <<>> \/ acc.hasDefinitely THEN acc
    ELSE LET p         == Head(versionedPlugins)
             longName  == p.name
             shortName == GetShortName(longName)
             next ==
                 IF pluginName = longName /\ pluginVersion = p.version
                 THEN [acc EXCEPT !.definitely = Append(@, p), !.hasDefinitely = TRUE]
                 ELSE IF /\ (pluginName = longName \/ pluginName = shortName)
                         /\ ~acc.hasDefinitely
                         /\ (pluginVersion = <<>> \/ pluginVersion = p.version)
                 THEN [acc EXCEPT !.maybe = Append(@, p)]
                 ELSE acc
         IN  matchKey(Tail(versionedPlugins), pluginName, pluginVersion, next)

\* filterPluginsByKeys, the loop over cliPluginKeys in the order given:
\* definitelyMatch, and maybeMatch as a function of the names whose key has
\* an entry.
RECURSIVE matchKeys(_, _, _, _, _)
matchKeys(versionedPlugins, cliPluginKeys, order, definitelyMatch, maybeMatch) ==
    IF order = <<>> THEN [definitely |-> definitelyMatch, maybe |-> maybeMatch]
    ELSE LET n   == Head(order)
             acc == matchKey(versionedPlugins, n, cliPluginKeys[n],
                             [definitely |-> definitelyMatch, maybe |-> <<>>,
                              hasDefinitely |-> FALSE])
             mm  == IF acc.maybe = <<>> THEN maybeMatch
                    ELSE [x \in (DOMAIN maybeMatch) \cup {n} |->
                             IF x = n THEN acc.maybe ELSE maybeMatch[x]]
         IN  matchKeys(versionedPlugins, cliPluginKeys, Tail(order), acc.definitely, mm)

\* filterPluginsByKeys, the loop over maybeMatch in the order given: the
\* single matches are appended, the first ambiguous key is remembered.
RECURSIVE appendMaybe(_, _, _, _, _)
appendMaybe(cliPluginKeys, maybeMatch, order, definitelyMatch, ambiguous) ==
    IF order = <<>> THEN [plugins |-> definitelyMatch, ambiguous |-> ambiguous]
    ELSE LET n == Head(order)
         IN  IF n \notin DOMAIN maybeMatch
             THEN appendMaybe(cliPluginKeys, maybeMatch, Tail(order), definitelyMatch, ambiguous)
             ELSE IF Len(maybeMatch[n]) = 1
             THEN appendMaybe(cliPluginKeys, maybeMatch, Tail(order),
                              definitelyMatch \o maybeMatch[n], ambiguous)
             ELSE appendMaybe(cliPluginKeys, maybeMatch, Tail(order), definitelyMatch,
                              IF ambiguous = <<>> THEN Key(n, cliPluginKeys[n]) ELSE ambiguous)

\* filterPluginsByKeys: order1 and order2 are the orders in which the two
\* maps are ranged over.
filterPluginsByKeys(versionedPlugins, cliPluginKeys, order1, order2) ==
    IF DOMAIN cliPluginKeys = {}
    THEN [plugins |-> versionedPlugins, err |-> NoErr]
    ELSE LET m == matchKeys(versionedPlugins, cliPluginKeys, order1, <<>>, <<>>)
             r == appendMaybe(cliPluginKeys, m.maybe, order2, m.definitely, <<>>)
         IN  IF DOMAIN m.maybe = {}
             THEN [plugins |-> m.definitely, err |-> NoErr]
             ELSE IF r.ambiguous = <<>>
             THEN [plugins |-> r.plugins, err |-> NoErr]
             ELSE [plugins |-> <<>>,
                   err |-> Errorf("ambiguous plugin keys, possible matches: %s", r.ambiguous)]

\* getVersionedPlugins
getVersionedPlugins(projectVersion, pfo) ==
    IF projectVersion = <<>>
    THEN [plugins |-> <<>>, err |-> Errorf("project version not set", <<>>)]
    ELSE IF projectVersion \notin DOMAIN pfo
    THEN [plugins |-> <<>>, err |-> Errorf("no plugins for project version %q", projectVersion)]
    ELSE [plugins |-> pfo[projectVersion], err |-> NoErr]

(***************************************************************************)
(* The binders of the subcommands.  A command is a record of its RunE      *)
(* function, the plugin bound to it and the error an errCmdFunc returns.   *)
(* A binder gets the cli c and the log of the calls made on plugins so     *)
(* far; it returns the command, the log, and in fatal the error of a       *)
(* log.Fatal that ended the process (NoErr when there was none).           *)
(* Two builds of the cli are modelled:                                     *)
(*   "A"  bindInit of cli/init.go, bindCreateAPI of cli/api.go and         *)
(*        bindCreateWebhook that binds the first Getter found;             *)
(*   "B"  bindInit of cli/state.go and the bindCreateAPI and               *)
(*        bindCreateWebhook whose RunE checks c.configured itself.         *)
(***************************************************************************)
NoPlugin == [name |-> <<>>, version |-> <<>>, supported |-> <<>>, caps |-> {}]

NoCmd == [runE |-> "unset", plugin |-> NoPlugin, err |-> NoErr]

\* The plugins of a list that implement a Getter interface, in order.
Getters(versionedPlugins, cap) == SelectSeq(versionedPlugins, LAMBDA p : cap \in p.caps)

\* One call of a method of the subcommand sub of plugin p.
Call(sub, p, method) == [sub |-> sub, plugin |-> p, method |-> method]

\* "%s, %s" of two plugin names.
TwoNames(a, b) == a \o <<",", " ">> \o b

\* cmdErr
cmdErr(err) == [runE |-> "errCmdFunc", plugin |-> NoPlugin, err |-> err]

noGetterErr(c, versionedPlugins) ==
    IF Len(versionedPlugins) = 0 /\ DOMAIN c.cliPluginKeys # {}
    THEN Errorf("no plugins found for CLI plugin keys %+q, likely a naming discrepancy", <<>>)
    ELSE Errorf("no plugin found for project version %q, possible plugins: %+q",
                c.projectVersion)

\* bindInit of cli/init.go, from GetInitPlugin on.
bindInitPluginA(calls, p) ==
    [cmd   |-> [runE |-> "runECmdFunc", plugin |-> p, err |-> NoErr],
     calls |-> calls \o <<Call("init", p, "BindFlags"), Call("init", p, "SetVersion"),
                          Call("init", p, "UpdateContext")>>,
     fatal |-> NoErr]

\* bindInit of cli/init.go: the first InitPluginGetter is bound.
bindInitA(c, calls) ==
    LET vp == getVersionedPlugins(c.projectVersion, c.pluginsFromOptions)
        g  == Getters(vp.plugins, "init")
    IN  IF vp.err # NoErr
        THEN [cmd |-> NoCmd, calls |-> calls, fatal |-> vp.err]
        ELSE IF g = <<>>
        THEN [cmd |-> NoCmd, calls |-> calls, fatal |-> noGetterErr(c, vp.plugins)]
        ELSE bindInitPluginA(calls, g[1])

\* bindInit of cli/state.go, from config.New on.
bindInitPluginB(calls, p) ==
    [cmd   |-> [runE |-> "initRunE", plugin |-> p, err |-> NoErr],
     calls |-> calls \o <<Call("init", p, "InjectConfig"), Call("init", p, "BindFlags"),
                          Call("init", p, "UpdateContext")>>,
     fatal |-> NoErr]

\* bindInit of cli/state.go, over c.resolvedPlugins: the plugins that
\* initialize kept for the project version.
bindInitB(c, calls) ==
    LET g == Getters(c.pluginsFromOptions[c.projectVersion], "init")
    IN  IF Len(g) >= 2
        THEN [cmd |-> NoCmd, calls |-> calls,
              fatal |-> Errorf("duplicate initialization plugins for project version %q: %s, %s",
                               TwoNames(g[1].name, g[2].name))]
        ELSE IF g = <<>>
        THEN [cmd |-> NoCmd, calls |-> calls,
              fatal |-> IF DOMAIN c.cliPluginKeys = {}
                        THEN Errorf("project version %q does not support an initialization plugin",
                                    c.projectVersion)
                        ELSE Errorf("plugin %q does not support an initialization plugin", <<>>)]
        ELSE bindInitPluginB(calls, g[1])

\* newInitCmd: with only the help flag set the command is returned as is.
newInitCmd(build, c, calls) ==
    IF c.doGenericHelp
    THEN [cmd |-> [runE |-> "noop", plugin |-> NoPlugin, err |-> NoErr],
          calls |-> calls, fatal |-> NoErr]
    ELSE IF build = "A" THEN bindInitA(c, calls) ELSE bindInitB(c, calls)

\* The command that is returned unbound: its RunE is an errCmdFunc.
requiresProject(sub) ==
    cmdErr(Errorf(IF sub = "api" THEN "api subcommand requires an existing project"
                  ELSE "webhook subcommand requires an existing project", <<>>))

\* A binder that updates the context before it binds the flags.
bindCreateAPIContextFirst(calls, p, runE) ==
    [cmd   |-> [runE |-> runE, plugin |-> p, err |-> NoErr],
     calls |-> calls \o <<Call("api", p, "UpdateContext"), Call("api", p, "BindFlags")>>,
     fatal |-> NoErr]

\* bindCreateAPI, from GetCreateAPIPlugin on; runE is the RunE of the build.
bindCreateAPIPlugin(calls, p, runE) ==
    [cmd   |-> [runE |-> runE, plugin |-> p, err |-> NoErr],
     calls |-> calls \o <<Call("api", p, "BindFlags"), Call("api", p, "UpdateContext")>>,
     fatal |-> NoErr]

\* bindCreateAPI: exactly one CreateAPIPluginGetter is bound.
bindCreateAPI(c, calls, runE) ==
    LET vp == getVersionedPlugins(c.projectVersion, c.pluginsFromOptions)
        g  == Getters(vp.plugins, "api")
    IN  IF vp.err # NoErr
        THEN [cmd |-> cmdErr(vp.err), calls |-> calls, fatal |-> NoErr]
        ELSE IF Len(g) >= 2
        THEN [cmd |-> cmdErr(Errorf("duplicate API creation plugins for project version %q: %s, %s",
                                    TwoNames(g[1].name, g[2].name))),
              calls |-> calls, fatal |-> NoErr]
        ELSE IF g = <<>>
        THEN [cmd |-> cmdErr(Errorf("project version %q does not support an API creation plugin",
                                    c.projectVersion)),
              calls |-> calls, fatal |-> NoErr]
        ELSE bindCreateAPIPlugin(calls, g[1], runE)

\* newCreateAPICmd: bound only in a configured project.
newCreateAPICmd(build, c, calls) ==
    IF ~c.configured
    THEN [cmd |-> requiresProject("api"), calls |-> calls, fatal |-> NoErr]
    ELSE bindCreateAPI(c, calls, IF build = "A" THEN "runECmdFunc" ELSE "createAPIRunE")

\* bindCreateWebhook, from GetCreateWebhookPlugin on.
bindCreateWebhookPlugin(calls, p, runE) ==
    [cmd   |-> [runE |-> runE, plugin |-> p, err |-> NoErr],
     calls |-> calls \o <<Call("webhook", p, "BindFlags"), Call("webhook", p, "UpdateContext")>>,
     fatal |-> NoErr]

\* bindCreateWebhook of build "A": the first CreateWebhookPluginGetter is
\* bound.
bindCreateWebhookA(c, calls) ==
    LET vp == getVersionedPlugins(c.projectVersion, c.pluginsFromOptions)
        g  == Getters(vp.plugins, "webhook")
    IN  IF vp.err # NoErr
        THEN [cmd |-> cmdErr(vp.err), calls |-> calls, fatal |-> NoErr]
        ELSE IF g = <<>>
        THEN [cmd |-> cmdErr(noGetterErr(c, vp.plugins)), calls |-> calls, fatal |-> NoErr]
        ELSE bindCreateWebhookPlugin(calls, g[1], "runECmdFunc")

\* bindCreateWebhook of build "B": exactly one CreateWebhookPluginGetter is
\* bound.
bindCreateWebhookB(c, calls) ==
    LET vp == getVersionedPlugins(c.projectVersion, c.pluginsFromOptions)
        g  == Getters(vp.plugins, "webhook")
    IN  IF vp.err # NoErr
        THEN [cmd |-> cmdErr(vp.err), calls |-> calls, fatal |-> NoErr]
        ELSE IF Len(g) >= 2
        THEN [cmd |-> cmdErr(Errorf("duplicate webhook creation plugins for project version %q: %s, %s",
                                    TwoNames(g[1].name, g[2].name))),
              calls |-> calls, fatal |-> NoErr]
        ELSE IF g = <<>>
        THEN [cmd |-> cmdErr(Errorf("project version %q does not support a webhook creation plugin",
                                    c.projectVersion)),
              calls |-> calls, fatal |-> NoErr]
        ELSE bindCreateWebhookPlugin(calls, g[1], "createWebhookRunE")

\* newCreateWebhookCmd: build "A" binds whether or not the project is
\* configured, build "B" only in a configured project.
newCreateWebhookCmd(build, c, calls) ==
    IF build = "A" THEN bindCreateWebhookA(c, calls)
    ELSE IF ~c.configured
    THEN [cmd |-> requiresProject("webhook"), calls |-> calls, fatal |-> NoErr]
    ELSE bindCreateWebhookB(c, calls)

NoCmds == [init |-> NoCmd, api |-> NoCmd, webhook |-> NoCmd]

\* buildRootCmd: create api, create webhook, then init; a log.Fatal in a
\* binder ends the process before the later commands are built.
buildRootCmd(build, c) ==
    LET a == newCreateAPICmd(build, c, <<>>)
        w == newCreateWebhookCmd(build, c, a.calls)
        i == newInitCmd(build, c, w.calls)
    IN  [cmds  |-> [init |-> i.cmd, api |-> a.cmd, webhook |-> w.cmd],
         calls |-> i.calls,
         fatal |-> i.fatal]

(***************************************************************************)
(* The project configuration and the scaffolding of an API.                *)
(***************************************************************************)
Version1 == <<"1">>

Version2 == <<"2">>

IsV1(config) == config.Version = Version1

IsV2(config) == config.Version = Version2

isEqualTo(r, other) ==
    r.Group = other.Group /\ r.Version = other.Version /\ r.Kind = other.Kind

\* A variant of HasResource that looks at the resources of every version.
HasResourceAnyVersion(config, target) ==
    \E i \in 1..Len(config.Resources) : isEqualTo(config.Resources[i], target)

HasResource(config, target) ==
    IF IsV1(config) THEN FALSE
    ELSE \E i \in 1..Len(config.Resources) : isEqualTo(config.Resources[i], target)

\* A variant of AddResource that appends a resource that is tracked already.
AddResourceAgain(config, gvk) ==
    IF IsV1(config)
    THEN [config |-> config, modified |-> FALSE]
    ELSE [config |-> [config EXCEPT !.Resources = Append(@, gvk)], modified |-> TRUE]

\* AddResource: the configuration after the call, and whether it was
\* modified.
AddResource(config, gvk) ==
    IF IsV1(config) \/ HasResource(config, gvk)
    THEN [config |-> config, modified |-> FALSE]
    ELSE [config |-> [config EXCEPT !.Resources = Append(@, gvk)], modified |-> TRUE]

ResourceGroups(config) == { config.Resources[i].Group : i \in 1..Len(config.Resources) }

\* strings.ToLower, for the letters the groups of the model are written in.
ToLowerChar(ch) ==
    CASE ch = "S" -> "s"
      [] ch = "H" -> "h"
      [] ch = "C" -> "c"
      [] ch = "R" -> "r"
      [] OTHER    -> ch

\* strings.EqualFold
EqualFold(a, b) ==
    /\ Len(a) = Len(b)
    /\ \A i \in 1..Len(a) : ToLowerChar(a[i]) = ToLowerChar(b[i])

\* One write to the disk, in the log of writes.
Saved == [op |-> "save", what |-> "PROJECT"]

Wrote(what) == [op |-> "write", what |-> what]

\* The steps of scaffoldV2 after the project file was updated: each Execute
\* or Update writes its files unless it is the step that fails.
RECURSIVE executeSteps(_, _, _)
executeSteps(steps, failAt, log) ==
    IF steps = <<>> THEN [log |-> log, err |-> NoErr]
    ELSE IF Head(steps).what = failAt
    THEN [log |-> log, err |-> Errorf(Head(steps).err, <<>>)]
    ELSE executeSteps(Tail(steps), failAt, Append(log, Wrote(Head(steps).what)))

resourceSteps ==
    << [what |-> "api",                err |-> "error scaffolding APIs: %v"],
       [what |-> "kustomization",      err |-> "error scaffolding kustomization: %v"],
       [what |-> "kustomization.yaml", err |-> "error updating kustomization.yaml: %v"] >>

controllerSteps ==
    << [what |-> "controller",    err |-> "error scaffolding controller: %v"],
       [what |-> "suite_test.go",
        err |-> "error updating suite_test.go under controllers pkg: %v"] >>

mainSteps == << [what |-> "main.go", err |-> "error updating main.go: %v"] >>

\* scaffoldV2: config is the loaded configuration, disk the configuration
\* in the project file, log the log of writes; failAt names the step that
\* fails ("none" when no step does).
scaffoldV2(config, disk, log, gvk, doResource, doController, failAt) ==
    LET added   == IF doResource THEN AddResource(config, gvk)
                   ELSE [config |-> config, modified |-> FALSE]
        saveErr == added.modified /\ failAt = "save"
        saved   == added.modified /\ failAt # "save"
        steps   == (IF doResource THEN resourceSteps ELSE <<>>)
                   \o (IF doController THEN controllerSteps ELSE <<>>)
                   \o mainSteps
        done    == executeSteps(steps, failAt, IF saved THEN Append(log, Saved) ELSE log)
    IN  IF saveErr
        THEN [disk |-> disk, log |-> log,
              err |-> Errorf("error updating project file with resource information : %v", <<>>)]
        ELSE [disk |-> IF saved THEN added.config ELSE disk, log |-> done.log, err |-> done.err]

\* scaffoldV1: the API files, then the controller files; the project file
\* is not written.
scaffoldV1(disk, log, doResource, doController, failAt) ==
    LET steps == (IF doResource THEN <<resourceSteps[1]>> ELSE <<>>)
                 \o (IF doController THEN <<controllerSteps[1]>> ELSE <<>>)
        done  == executeSteps(steps, failAt, log)
    IN  [disk |-> disk, log |-> done.log, err |-> done.err]

\* apiScaffolder.Scaffold
Scaffold(config, disk, log, gvk, doResource, doController, failAt) ==
    IF IsV1(config) THEN scaffoldV1(disk, log, doResource, doController, failAt)
    ELSE IF IsV2(config)
    THEN scaffoldV2(config, disk, log, gvk, doResource, doController, failAt)
    ELSE [disk |-> disk, log |-> log, err |-> Errorf("unknown project version %v", config.Version)]

\* createAPIPlugin.Validate
Validate(config, gvk, force, doResource) ==
    IF /\ doResource
       /\ ~force
       /\ \E i \in 1..Len(config.Resources) : isEqualTo(config.Resources[i], gvk)
    THEN Errorf("API resource already exists", <<>>)
    ELSE IF /\ doResource
            /\ ~config.MultiGroup
            /\ \E g \in ResourceGroups(config) : ~EqualFold(gvk.Group, g)
    THEN Errorf("multiple groups are not allowed by default, to enable multi-group visit %s", <<>>)
    ELSE NoErr

\* The project file on the disk: absent, unreadable, or a configuration.
NoConfig == [Version |-> <<>>, Domain |-> "", Repo |-> "", Resources |-> <<>>, MultiGroup |-> FALSE]

NoFile == [exists |-> FALSE, corrupt |-> FALSE, config |-> NoConfig]

File(config) == [exists |-> TRUE, corrupt |-> FALSE, config |-> config]

\* config.Read: "ok" with the configuration, "notexist", or another error.
Read(file) ==
    IF ~file.exists THEN "notexist" ELSE IF file.corrupt THEN "error" ELSE "ok"

\* createAPIPlugin.Run: LoadConfig, Validate, Scaffold.
RunCreateAPI(file, log, gvk, force, doResource, doController, failAt) ==
    IF Read(file) # "ok"
    THEN [file |-> file, log |-> log,
          err |-> Errorf("unable to find configuration file, project must be initialized", <<>>)]
    ELSE LET invalid == Validate(file.config, gvk, force, doResource)
             done    == Scaffold(file.config, file.config, log, gvk,
                                 doResource, doController, failAt)
         IN  IF invalid # NoErr
             THEN [file |-> file, log |-> log, err |-> invalid]
             ELSE [file |-> File(done.disk), log |-> done.log, err |-> done.err]

\* createWebhookPlugin.Run: LoadConfig, then the scaffold of the webhook.
RunCreateWebhook(file, log, fails) ==
    IF Read(file) = "notexist"
    THEN [file |-> file, log |-> log,
          err |-> Errorf("unable to find configuration file, project must be initialized", <<>>)]
    ELSE IF Read(file) = "error" \/ fails
    THEN [file |-> file, log |-> log, err |-> Errorf("error scaffolding webhook: %v", <<>>)]
    ELSE [file |-> file, log |-> Append(log, Wrote("webhook")), err |-> NoErr]

\* initPlugin.Run of build "A": LoadConfig refuses an initialized project;
\* the scaffold writes the project file with the other files.
RunInitA(file, log, projectVersion, fails) ==
    IF Read(file) = "ok"
    THEN [file |-> file, log |-> log, err |-> Errorf("already initialized", <<>>)]
    ELSE IF fails
    THEN [file |-> file, log |-> log, err |-> Errorf("error scaffolding project: %v", <<>>)]
    ELSE [file |-> File([NoConfig EXCEPT !.Version = projectVersion]),
          log  |-> log \o <<Wrote("init"), Wrote("PROJECT")>>,
          err  |-> NoErr]

\* Init.Run of build "B": the configuration was injected, the scaffold
\* writes the files other than the project file.
RunInitB(file, log, fails) ==
    IF fails
    THEN [file |-> file, log |-> log, err |-> Errorf("error scaffolding project: %v", <<>>)]
    ELSE [file |-> file, log |-> Append(log, Wrote("init")), err |-> NoErr]

(***************************************************************************)
(* Inputs of the resolver: plugin names, versions and keys.                *)
(***************************************************************************)
nGo == <<"g", "o">>

nGoKb == <<"g", "o", ".", "k", "b">>

nGoEx == <<"g", "o", ".", "e", "x">>

nHm == <<"h", "m">>

nHmEx == <<"h", "m", ".", "e", "x">>

nZz == <<"z", "z">>

v1 == <<"1">>

v10 == <<"v", "1", ".", "0">>

v11 == <<"v", "1", ".", "1">>

v20 == <<"v", "2", ".", "0">>

v30 == <<"v", "3", ".", "0">>

ResolverPool ==
    { [name |-> nGoEx, version |-> v10],
      [name |-> nGoKb, version |-> v10],
      [name |-> nGoKb, version |-> v20],
      [name |-> nGoKb, version |-> v1],
      [name |-> nGo,   version |-> v10],
      [name |-> nHmEx, version |-> v11],
      [name |-> nGoEx, version |-> v11] }

\* Key(name, version): "name" alone, or "name/version".
KeyOf(name, version) == IF version = <<>> THEN name ELSE name \o <<"/">> \o version

ResolverKeys ==
    { KeyOf(n, v) : n \in {nGo, nGoKb, nGoEx, nHm, nHmEx, nZz},
                    v \in {<<>>, v1, v10, v11, v20, v30} }

\* The lists of at most MaxCandidates distinct plugins of the pool.
CandidateLists ==
    { s \in UNION { [1..n -> ResolverPool] : n \in 0..MaxCandidates } :
        \A i, j \in 1..Len(s) : i # j => s[i] # s[j] }

(***************************************************************************)
(* State.                                                                  *)
(***************************************************************************)
VARIABLES
    rPlugins,   \* resolver: the candidate plugins (versionedPlugins)
    rKey,       \* resolver: the plugin key
    rOut,       \* resolver: what resolvePluginsByKey returned
    build,      \* cli: the build of the binders, "A" or "B"
    osArgs,     \* cli: the flags of the command line
    opts,       \* cli: the options New was called with
    projectFile,\* cli: the project file on the disk
    fsLog,      \* cli: the writes to the disk, in order
    c,          \* cli: the fields of the cli
    phase,      \* cli: "start", "failed", "built", "ran" or "exited"
    err,        \* cli: the error New or RunE returned, or log.Fatal printed
    cmds,       \* cli: the subcommands built by New
    calls,      \* cli: the calls made on subcommand plugins, in order
    run,        \* cli: the subcommand executed and its inputs
    cfgNow,     \* config: the Config in memory
    cfgDoc,     \* config: the bytes of the project file
    cfgAdded,   \* config: the GVKs AddResource was called with, in order
    cfgLast,    \* config: the last call on the Config and what it returned
    insIn,      \* insert: the content and the fragments given to InsertStrings
    insOut,     \* insert: the contents InsertStrings returned, in order
    updUniverse,\* update: the files of the universe
    updDisk,    \* update: the files on the disk
    updIn,      \* update: the path, the update function and the plugins
    updLog,     \* update: the steps Update made, in order, and its error
    stFiles,    \* state: the files map of the cli state
    stFs,       \* state: the afero filesystem of the cli state
    stDisk,     \* state: the tree on the disk of the operating system
    stLast,     \* state: the last call on the cli state and what it returned
    psFs,       \* plugin state: the afero filesystem
    psFiles,    \* plugin state: the Files map
    psLast,     \* plugin state: the last call and what it returned
    plIn,       \* plugin helpers: the arguments of the last call
    plOut,      \* plugin helpers: the function called and what it returned
    pjFile,     \* project: the project file on the disk
    pjOps,      \* project: the number of commands run
    pjLast      \* project: the last command run and the error it returned

resolverVars == <<rPlugins, rKey, rOut>>

cliVars == <<build, osArgs, opts, projectFile, fsLog, c, phase, err, cmds, calls, run>>

configVars == <<cfgNow, cfgDoc, cfgAdded, cfgLast>>

insertVars == <<insIn, insOut>>

updateVars == <<updUniverse, updDisk, updIn, updLog>>

stateVars == <<stFiles, stFs, stDisk, stLast>>

pstateVars == <<psFs, psFiles, psLast>>

pluginVars == <<plIn, plOut>>

projectVars == <<pjFile, pjOps, pjLast>>

libVars == <<configVars, insertVars, updateVars, stateVars, pstateVars, pluginVars,
            projectVars>>

vars == <<resolverVars, cliVars, libVars>>

NotRun == [done |-> FALSE, panic |-> FALSE, resolved |-> <<>>, err |-> NoErr]

\* The cli before New, in a process whose flags and project file are not
\* looked at.
NoCli ==
    [defaultProjectVersion |-> <<>>, projectVersion |-> <<>>, configured |-> FALSE,
     doGenericHelp |-> FALSE, pluginsFromOptions |-> <<>>, cliPluginKeys |-> <<>>]

NoArgs == [projectVersion |-> <<>>, help |-> FALSE, plugins |-> <<>>]

NoOpts == [plugins |-> <<>>, defaultProjectVersion |-> <<>>]

NoInput ==
    [gvk |-> [Group |-> <<>>, Version |-> "", Kind |-> ""], force |-> FALSE,
     doResource |-> FALSE, doController |-> FALSE, failAt |-> "none"]

NoRun == [sub |-> "", input |-> NoInput]

\* The variables of a specification that is not the one running stay at
\* these values.
ResolverIdle == rPlugins = <<>> /\ rKey = <<>> /\ rOut = NotRun

CliIdle ==
    /\ build = "A"
    /\ osArgs = NoArgs
    /\ opts = NoOpts
    /\ projectFile = NoFile
    /\ fsLog = <<>>
    /\ c = NoCli
    /\ phase = "start"
    /\ err = NoErr
    /\ cmds = NoCmds
    /\ calls = <<>>
    /\ run = NoRun

ConfigIdle == cfgNow = <<>> /\ cfgDoc = <<>> /\ cfgAdded = <<>> /\ cfgLast = <<>>

InsertIdle == insIn = <<>> /\ insOut = <<>>

UpdateIdle == updUniverse = <<>> /\ updDisk = <<>> /\ updIn = <<>> /\ updLog = <<>>

StateIdle == stFiles = <<>> /\ stFs = <<>> /\ stDisk = <<>> /\ stLast = <<>>

PStateIdle == psFs = <<>> /\ psFiles = <<>> /\ psLast = <<>>

PluginIdle == plIn = <<>> /\ plOut = <<>>

ProjectIdle == pjFile = <<>> /\ pjOps = 0 /\ pjLast = <<>>

LibIdle == ConfigIdle /\ InsertIdle /\ UpdateIdle /\ StateIdle /\ PStateIdle /\ PluginIdle
             /\ ProjectIdle

ResolverInit ==
    /\ rPlugins \in CandidateLists
    /\ rKey \in ResolverKeys
    /\ rOut = NotRun
    /\ CliIdle
    /\ LibIdle

ResolvePluginsByKey ==
    /\ ~rOut.done
    /\ rOut' = resolvePluginsByKey(rPlugins, rKey)
    /\ UNCHANGED <<rPlugins, rKey>>
    /\ UNCHANGED <<cliVars, libVars>>

ResolverNext == ResolvePluginsByKey

SpecResolver == ResolverInit /\ [][ResolverNext]_vars

(***************************************************************************)
(* Properties of the resolver.                                             *)
(***************************************************************************)
rName == SplitKey(rKey).name

rVersion == SplitKey(rKey).version

HasDot(name) == \E i \in 1..Len(name) : name[i] = "."

SameMajor(p, version) ==
    ParseTolerant(p.version).Major = ParseTolerant(version).Major

SameMajorMinor(p, version) ==
    /\ SameMajor(p, version)
    /\ ParseTolerant(p.version).Minor = ParseTolerant(version).Minor

\* The key's name matches p: by short name for a name without a dot, by
\* full name otherwise.
KeyNameMatches(p, name) ==
    IF HasDot(name) THEN p.name = name ELSE GetShortName(p.name) = name

\* p passes the version step for the key of the run.
VersionCompatible(p) ==
    \/ rVersion = <<>>
    \/ SameMajorMinor(p, rVersion)
    \/ /\ SameMajor(p, rVersion)
       /\ ~\E i \in 1..Len(rPlugins) : SameMajorMinor(rPlugins[i], rVersion)

Matching(p) == VersionCompatible(p) /\ KeyNameMatches(p, rName)

Returned == { rOut.resolved[i] : i \in 1..Len(rOut.resolved) }

ExactlyMatches(p) == rVersion # <<>> /\ p.name = rName /\ p.version = rVersion

C4_VersionStep ==
    (rOut.done /\ rVersion # <<>>) =>
        /\ \A p \in Returned :
            \/ SameMajorMinor(p, rVersion)
            \/ /\ SameMajor(p, rVersion)
               /\ ~\E i \in 1..Len(rPlugins) : SameMajorMinor(rPlugins[i], rVersion)
        /\ (~\E i \in 1..Len(rPlugins) : SameMajor(rPlugins[i], rVersion))
            => /\ rOut.err = [fmt |-> ErrNoVersionsMatch, arg |-> rVersion]
               /\ rOut.resolved = <<>>

C4_Witness ==
    /\ rOut.done
    /\ rVersion # <<>>
    /\ Len(rPlugins) >= 2
    /\ rOut.resolved # <<>>
    /\ \A p \in Returned : ~SameMajorMinor(p, rVersion)

(***************************************************************************)
(* The cli as a process: New builds the commands from the options, the     *)
(* flags and the project file; one subcommand is then executed.            *)
(***************************************************************************)
MaxPlugins == 2

\* internalconfig.DefaultVersion
DefaultVersion == Version2

pv3 == <<"3">>

pv0 == <<"0">>

AllCaps == {"init", "api", "webhook"}

v101 == <<"v", "1", ".", "0", ".", "1">>

nUpper == <<"G", "o">>

CliPool ==
    { [name |-> nGoKb,  version |-> v20,  supported |-> <<Version2>>,      caps |-> AllCaps],
      [name |-> nHmEx,  version |-> v10,  supported |-> <<Version2, pv3>>, caps |-> AllCaps],
      [name |-> nGoEx,  version |-> v10,  supported |-> <<Version2>>,      caps |-> {"api"}],
      [name |-> nGoKb,  version |-> v10,  supported |-> <<Version2>>,      caps |-> {}],
      [name |-> nUpper, version |-> v10,  supported |-> <<pv3>>,           caps |-> {}],
      [name |-> nHm,    version |-> v101, supported |-> <<pv3>>,           caps |-> {}],
      [name |-> nZz,    version |-> v10,  supported |-> <<pv0>>,           caps |-> {}] }

\* The lists of at most MaxPlugins distinct plugins given to WithPlugins.
PluginLists ==
    { s \in UNION { [1..n -> CliPool] : n \in 0..MaxPlugins } :
        \A i, j \in 1..Len(s) : i # j => s[i] # s[j] }

DefaultProjectVersions == {DefaultVersion, pv3, pv0}

\* The values of --plugins.
PluginKeyFlags ==
    { <<>>, <<nGo>>, <<nGo, nGoKb>>, <<KeyOf(nGoKb, v20)>>, <<nHmEx, KeyOf(nHmEx, v10)>>,
      <<KeyOf(<<>>, v10)>>, <<nUpper>>, <<KeyOf(nGo, v101)>> }

\* The command lines: --help is given without --plugins.
CliArgs ==
    [projectVersion : {<<>>, pv3}, help : {FALSE}, plugins : PluginKeyFlags]
      \cup [projectVersion : {<<>>, pv3}, help : {TRUE}, plugins : {<<>>}]

gShip == <<"s", "h">>

gShipUpper == <<"S", "h">>

gCrew == <<"c", "r">>

Frigate == [Group |-> gShip, Version |-> "v1", Kind |-> "Frigate"]

GVKs ==
    { Frigate,
      [Group |-> gShipUpper, Version |-> "v1", Kind |-> "Frigate"],
      [Group |-> gCrew,      Version |-> "v1", Kind |-> "Frigate"],
      [Group |-> gShip,      Version |-> "v1", Kind |-> "Cruiser"] }

ProjectFiles ==
    { NoFile,
      [exists |-> TRUE, corrupt |-> TRUE, config |-> NoConfig],
      File([NoConfig EXCEPT !.Version = Version2]),
      File([NoConfig EXCEPT !.Version = Version2, !.Resources = <<Frigate>>]),
      File([NoConfig EXCEPT !.Version = pv3]) }

FailAt ==
    {"none", "save"} \cup { resourceSteps[i].what : i \in 1..Len(resourceSteps) }
      \cup { controllerSteps[i].what : i \in 1..Len(controllerSteps) }
      \cup { mainSteps[i].what : i \in 1..Len(mainSteps) }

APIInputs ==
    [gvk : GVKs, force : BOOLEAN, doResource : BOOLEAN, doController : BOOLEAN,
     failAt : FailAt]

CliInit ==
    /\ rPlugins = <<>>
    /\ rKey = <<>>
    /\ rOut = NotRun
    /\ build \in {"A", "B"}
    /\ osArgs \in CliArgs
    /\ opts = NoOpts
    /\ projectFile \in ProjectFiles
    /\ fsLog = <<>>
    /\ c = NoCli
    /\ phase = "start"
    /\ err = NoErr
    /\ cmds = NoCmds
    /\ calls = <<>>
    /\ run = NoRun
    /\ LibIdle

\* New returned the error e, or a log.Fatal printed it and ended the
\* process.
Stopped(ph, e, cli, log) ==
    /\ phase' = ph
    /\ err' = e
    /\ c' = cli
    /\ calls' = log
    /\ cmds' = NoCmds
    /\ UNCHANGED <<build, osArgs, projectFile, fsLog, run>>

\* initialize, from getVersionedPlugins on.
Build(cli) ==
    LET vp == getVersionedPlugins(cli.projectVersion, cli.pluginsFromOptions)
    IN  IF vp.err # NoErr THEN Stopped("failed", vp.err, cli, <<>>)
        ELSE \E order1, order2 \in Perms(DOMAIN cli.cliPluginKeys) :
            LET f    == filterPluginsByKeys(vp.plugins, cli.cliPluginKeys, order1, order2)
                cli2 == [cli EXCEPT !.pluginsFromOptions[cli.projectVersion] = f.plugins]
                root == buildRootCmd(build, cli2)
            IN  IF f.err # NoErr THEN Stopped("failed", f.err, cli, <<>>)
                ELSE IF root.fatal # NoErr THEN Stopped("exited", root.fatal, cli2, root.calls)
                ELSE /\ phase' = "built"
                     /\ err' = NoErr
                     /\ c' = cli2
                     /\ cmds' = root.cmds
                     /\ calls' = root.calls
                     /\ UNCHANGED <<build, osArgs, projectFile, fsLog, run>>

\* New(WithDefaultProjectVersion(defaultProjectVersion), WithPlugins(plugins...))
New(plugins, defaultProjectVersion) ==
    /\ phase = "start"
    /\ opts' = [plugins |-> plugins, defaultProjectVersion |-> defaultProjectVersion]
    /\ LET parsed == parsePluginKeys(osArgs.plugins, <<>>)
           flagPV == IF osArgs.projectVersion # <<>> THEN osArgs.projectVersion
                     ELSE defaultProjectVersion
           read   == Read(projectFile)
           cli ==
               [defaultProjectVersion |-> defaultProjectVersion,
                projectVersion |->
                    IF read = "ok" THEN projectFile.config.Version
                    ELSE IF flagPV = <<>> THEN defaultProjectVersion ELSE flagPV,
                configured |-> read = "ok",
                doGenericHelp |-> osArgs.help /\ osArgs.projectVersion = <<>>,
                pluginsFromOptions |-> WithPlugins(<<>>, plugins),
                cliPluginKeys |-> parsed.keys]
           invalid == validate(cli.defaultProjectVersion, cli.projectVersion,
                               cli.pluginsFromOptions, cli.cliPluginKeys)
       IN  IF parsed.err # NoErr THEN Stopped("failed", parsed.err, cli, <<>>)
           ELSE IF read = "error"
           THEN Stopped("failed", Errorf("failed to read config: %v", <<>>), cli, <<>>)
           ELSE IF invalid # {} THEN \E e \in invalid : Stopped("failed", e, cli, <<>>)
           ELSE Build(cli)
    /\ UNCHANGED <<resolverVars, libVars>>

\* What an executed RunE leaves: the error it returned, the project file
\* and the log of writes.
Ran(sub, input, e, file, log, called) ==
    /\ phase' = "ran"
    /\ run' = [sub |-> sub, input |-> input]
    /\ err' = e
    /\ projectFile' = file
    /\ fsLog' = log
    /\ calls' = calls \o called
    /\ UNCHANGED <<build, osArgs, opts, c, cmds>>
    /\ UNCHANGED <<resolverVars, libVars>>

\* runECmdFunc: the error of Run is wrapped in msg.
Wrap(msg, e) == IF e = NoErr THEN NoErr ELSE Errorf(msg, c.projectVersion)

\* kubebuilder init
ExecuteInit(fails) ==
    /\ phase = "built"
    /\ LET cmd   == cmds.init
           input == [NoInput EXCEPT !.failAt = IF fails THEN "init" ELSE "none"]
           msg   == "failed to initialize project with version %q: %v"
           a     == RunInitA(projectFile, fsLog, c.projectVersion, fails)
           b     == RunInitB(projectFile, fsLog, fails)
           cfg   == [NoConfig EXCEPT !.Version = c.projectVersion]
       IN  IF cmd.runE = "runECmdFunc"
           THEN Ran("init", input, Wrap(msg, a.err), a.file, a.log,
                    <<Call("init", cmd.plugin, "Run")>>)
           ELSE IF cmd.runE = "initRunE"
           THEN IF Read(projectFile) = "ok"
                THEN /\ phase' = "exited"
                     /\ run' = [sub |-> "init", input |-> input]
                     /\ err' = Errorf("config already initialized", <<>>)
                     /\ UNCHANGED <<build, osArgs, opts, projectFile, fsLog, c, cmds, calls>>
                     /\ UNCHANGED <<resolverVars, libVars>>
                ELSE IF b.err # NoErr
                THEN Ran("init", input, Wrap(msg, b.err), b.file, b.log,
                         <<Call("init", cmd.plugin, "Run")>>)
                ELSE Ran("init", input, NoErr, File(cfg), Append(b.log, Saved),
                         <<Call("init", cmd.plugin, "Run")>>)
           ELSE Ran("init", input, cmd.err, projectFile, fsLog, <<>>)

\* kubebuilder create api
ExecuteCreateAPI ==
    /\ phase = "built"
    /\ LET cmd == cmds.api
           msg == "failed to create api for project with version %q: %v"
       IN  IF cmd.runE = "createAPIRunE" /\ ~c.configured
           THEN Ran("api", NoInput,
                    Errorf("failed to create api because project is not initialized", <<>>),
                    projectFile, fsLog, <<>>)
           ELSE IF cmd.runE \in {"runECmdFunc", "createAPIRunE"}
           THEN \E input \in APIInputs :
                   LET r == RunCreateAPI(projectFile, fsLog, input.gvk, input.force,
                                         input.doResource, input.doController, input.failAt)
                   IN  Ran("api", input, Wrap(msg, r.err), r.file, r.log,
                           <<Call("api", cmd.plugin, "Run")>>)
           ELSE Ran("api", NoInput, cmd.err, projectFile, fsLog, <<>>)

\* kubebuilder create webhook
ExecuteCreateWebhook(fails) ==
    /\ phase = "built"
    /\ LET cmd   == cmds.webhook
           input == [NoInput EXCEPT !.failAt = IF fails THEN "webhook" ELSE "none"]
           msg   == "failed to create webhook for project with version %q: %v"
           r     == RunCreateWebhook(projectFile, fsLog, fails)
       IN  IF cmd.runE = "createWebhookRunE" /\ ~c.configured
           THEN Ran("webhook", input,
                    Errorf("failed to create webhook because project is not initialized", <<>>),
                    projectFile, fsLog, <<>>)
           ELSE IF cmd.runE \in {"runECmdFunc", "createWebhookRunE"}
           THEN Ran("webhook", input, Wrap(msg, r.err), r.file, r.log,
                    <<Call("webhook", cmd.plugin, "Run")>>)
           ELSE Ran("webhook", input, cmd.err, projectFile, fsLog, <<>>)

CliNext ==
    \/ \E plugins \in PluginLists, defaultProjectVersion \in DefaultProjectVersions :
           New(plugins, defaultProjectVersion)
    \/ \E fails \in BOOLEAN : ExecuteInit(fails)
    \/ ExecuteCreateAPI
    \/ \E fails \in BOOLEAN : ExecuteCreateWebhook(fails)

SpecCli == CliInit /\ [][CliNext]_vars

(***************************************************************************)
(* Properties of the binders.                                              *)
(***************************************************************************)
Subs == {"init", "api", "webhook"}

\* New has run the binder of sub: newInitCmd binds unless generic help is
\* asked for, newCreateAPICmd in a configured project, newCreateWebhookCmd
\* always in build "A" and in a configured project in build "B".
BinderRan(sub) ==
    /\ \/ phase \in {"built", "ran"}
       \/ phase = "exited" /\ sub = "init"
    /\ CASE sub = "init" -> ~c.doGenericHelp
         [] sub = "api"  -> c.configured
         [] OTHER        -> build = "A" \/ c.configured

\* The plugins of the project version that implement the Getter of sub.
GettersOf(sub) == Getters(c.pluginsFromOptions[c.projectVersion], sub)

\* The error the binder of sub reported: printed by log.Fatal, or returned
\* by the command.
Reported(sub) == IF phase = "exited" /\ run = NoRun THEN err ELSE cmds[sub].err

NoneMsg(sub) ==
    CASE sub = "init" -> "project version %q does not support an initialization plugin"
      [] sub = "api"  -> "project version %q does not support an API creation plugin"
      [] OTHER        -> "project version %q does not support a webhook creation plugin"

DuplicateMsg(sub) ==
    CASE sub = "init" -> "duplicate initialization plugins for project version %q: %s, %s"
      [] sub = "api"  -> "duplicate API creation plugins for project version %q: %s, %s"
      [] OTHER        -> "duplicate webhook creation plugins for project version %q: %s, %s"

\* C5: a binder binds a subcommand plugin only when exactly one plugin of
\* the project version implements the Getter; with none it reports that
\* the project version does not support the plugin, with two or more it
\* reports the duplicate plugins, naming the first two, and binds nothing.
C5_BindsOnlyTheSingleGetter ==
    \A sub \in Subs :
        BinderRan(sub) =>
            LET g == GettersOf(sub)
            IN  /\ cmds[sub].plugin # NoPlugin => Len(g) = 1 /\ cmds[sub].plugin = g[1]
                /\ Len(g) = 0 => Reported(sub).fmt = NoneMsg(sub)
                /\ Len(g) >= 2 =>
                       /\ Reported(sub).fmt = DuplicateMsg(sub)
                       /\ Reported(sub).arg = TwoNames(g[1].name, g[2].name)

\* The calls of Run made on the plugin of sub.
RunCalls(sub) ==
    { i \in 1..Len(calls) : calls[i].sub = sub /\ calls[i].method = "Run" }

\* C6: Run is reached only after the precondition of the subcommand was
\* checked: init in a directory with a project file, and create api or
\* create webhook in a directory without one, end with an error and
\* without a call of Run.
C6_RunOnlyAfterGuard ==
    /\ run.sub = "init" /\ c.configured =>
           RunCalls("init") = {} /\ err # NoErr
    /\ run.sub \in {"api", "webhook"} /\ ~c.configured =>
           RunCalls(run.sub) = {} /\ err # NoErr

\* C7: the process exits only for a duplicate-capability wiring error;
\* a failed precondition or a missing capability is a returned error.
C7_ExitsOnlyForDuplicates ==
    phase = "exited" => \E sub \in Subs : err.fmt = DuplicateMsg(sub)

\* The positions in the log of the calls of a method of the plugin of sub.
CallsOf(sub, method) ==
    { i \in 1..Len(calls) : calls[i].sub = sub /\ calls[i].method = method }

\* C8: every binder calls BindFlags and then UpdateContext on the plugin it
\* binds, each exactly once and while New builds the command; Run is
\* called only when the command is executed, after both, at most once and
\* on the bound plugin.
C8_BindFlagsThenUpdateContextThenRun ==
    \A sub \in Subs :
        /\ Cardinality(CallsOf(sub, "BindFlags")) <= 1
        /\ Cardinality(CallsOf(sub, "UpdateContext")) = Cardinality(CallsOf(sub, "BindFlags"))
        /\ \A i \in CallsOf(sub, "BindFlags"), j \in CallsOf(sub, "UpdateContext") :
               i < j /\ calls[i].plugin = calls[j].plugin
        /\ cmds[sub].plugin # NoPlugin =>
               /\ CallsOf(sub, "BindFlags") # {}
               /\ \A i \in CallsOf(sub, "BindFlags") : calls[i].plugin = cmds[sub].plugin
        /\ Cardinality(CallsOf(sub, "Run")) <= 1
        /\ \A r \in CallsOf(sub, "Run") :
               /\ phase = "ran" /\ run.sub = sub
               /\ calls[r].plugin = cmds[sub].plugin
               /\ \E i \in CallsOf(sub, "BindFlags"), j \in CallsOf(sub, "UpdateContext") :
                      i < j /\ j < r
        /\ phase \in {"start", "failed", "built", "exited"} /\ run = NoRun =>
               CallsOf(sub, "Run") = {}

\* A create api command bound by New was executed and its plugin has run.
C8_Witness ==
    /\ phase = "ran"
    /\ run.sub = "api"
    /\ err = NoErr
    /\ CallsOf("api", "Run") # {}
    /\ CallsOf("init", "BindFlags") # {}
    /\ CallsOf("webhook", "UpdateContext") # {}

\* The names of the plugins of a list are pairwise distinct.
DistinctNames(versionedPlugins) ==
    \A i, j \in 1..Len(versionedPlugins) :
        i # j => versionedPlugins[i].name # versionedPlugins[j].name

\* The plugins given to WithPlugins hold an invalid name, version or
\* supported project version, or two plugins of one name that support the
\* same project version.
InvalidPlugins(plugins) ==
    \/ \E i \in 1..Len(plugins) :
           \/ ~ValidateName(plugins[i].name)
           \/ ~ValidateVersion(plugins[i].version)
           \/ \E k \in 1..Len(plugins[i].supported) :
                  ~ValidateProjectVersion(plugins[i].supported[k])
    \/ \E i, j \in 1..Len(plugins) :
           /\ i # j
           /\ plugins[i].name = plugins[j].name
           /\ \E k \in 1..Len(plugins[i].supported), l \in 1..Len(plugins[j].supported) :
                  plugins[i].supported[k] = plugins[j].supported[l]

\* C9: New returns an error when the plugins it is given hold an invalid
\* name, version or supported project version or two plugins of one name
\* for one project version; after New returned without an error the
\* plugins of each project version have pairwise distinct names.
C9_ValidAndDistinctAfterNew ==
    /\ phase # "start" /\ InvalidPlugins(opts.plugins) => phase = "failed"
    /\ phase \in {"built", "ran"} =>
        \A v \in DOMAIN c.pluginsFromOptions :
            LET versionedPlugins == c.pluginsFromOptions[v]
            IN  /\ DistinctNames(versionedPlugins)
                /\ \A i \in 1..Len(versionedPlugins) :
                       /\ ValidateName(versionedPlugins[i].name)
                       /\ ValidateVersion(versionedPlugins[i].version)
                       /\ \A k \in 1..Len(versionedPlugins[i].supported) :
                              ValidateProjectVersion(versionedPlugins[i].supported[k])

\* C10: the project file is saved only after the files of the scaffold
\* were written: by the RunE of init that saves the configuration after
\* Run returned without an error, by create api after the API files were
\* scaffolded, so that a scaffold that fails leaves no saved configuration.
C10_ConfigSavedAfterScaffold ==
    /\ run.sub = "init" /\ build = "B" =>
           /\ \A i \in 1..Len(fsLog) :
                  fsLog[i] = Saved => \E j \in 1..(i - 1) : fsLog[j] = Wrote("init")
           /\ err # NoErr => \A i \in 1..Len(fsLog) : fsLog[i] # Saved
    /\ run.sub = "api" =>
           /\ \A i \in 1..Len(fsLog) :
                  fsLog[i] = Saved => \E j \in 1..(i - 1) : fsLog[j] = Wrote("api")
           /\ err # NoErr /\ (\A j \in 1..Len(fsLog) : fsLog[j] # Wrote("api")) =>
                  \A i \in 1..Len(fsLog) : fsLog[i] # Saved


(***************************************************************************)
(* The project configuration: the tracked resources, the extra fields,     *)
(* Marshal and Unmarshal.                                                  *)
(*                                                                         *)
(* A document is the sequence of its top-level entries, in the order they  *)
(* are written.  A map[string]interface{} is the set of its entries; the   *)
(* nil map and the nil slice are the empty ones.                           *)
(***************************************************************************)
Entry(k, v) == [key |-> k, val |-> v]

\* The keys of the fields of Config, from their tags.
StructKeys == {"version", "domain", "repo", "resources", "multigroup"}

\* The keys in the order yaml.Marshal sorts them.
KeyOrder == <<"bar", "domain", "foo", "multigroup", "repo", "resources", "version">>

KeyRank(k) == CHOOSE i \in 1..Len(KeyOrder) : KeyOrder[i] = k

\* yaml.Marshal of a map: its entries sorted by key.
RECURSIVE yamlMarshalMap(_)
yamlMarshalMap(m) ==
    IF m = {} THEN <<>>
    ELSE LET first == CHOOSE e \in m : \A o \in m : KeyRank(e.key) <= KeyRank(o.key)
         IN  <<first>> \o yamlMarshalMap(m \ {first})

\* The document of the empty struct, "{}".
Braces == <<Entry("{}", "")>>

\* yaml.Marshal of a Config: the fields that are not empty (omitempty),
\* sorted by key; ExtraFields has the tag "-".
yamlMarshalConfig(config) ==
    LET fields ==
            (IF config.Domain = "" THEN {} ELSE {Entry("domain", config.Domain)})
            \cup (IF config.MultiGroup THEN {Entry("multigroup", TRUE)} ELSE {})
            \cup (IF config.Repo = "" THEN {} ELSE {Entry("repo", config.Repo)})
            \cup (IF config.Resources = <<>> THEN {}
                  ELSE {Entry("resources", config.Resources)})
            \cup (IF config.Version = <<>> THEN {} ELSE {Entry("version", config.Version)})
    IN  IF fields = {} THEN Braces ELSE yamlMarshalMap(fields)

\* A variant of Marshal that leaves the extra fields out.
MarshalStructOnly(config) ==
    LET content == yamlMarshalConfig(config)
    IN  IF content = Braces THEN <<>> ELSE content

Marshal(config) ==
    LET content == yamlMarshalConfig(config)
        struct  == IF content = Braces THEN <<>> ELSE content
    IN  IF ~IsV1(config) /\ config.ExtraFields # {}
        THEN struct \o yamlMarshalMap(config.ExtraFields)
        ELSE struct

\* yaml.Unmarshal into a map: the last entry of a key is the one kept.
yamlUnmarshal(in) ==
    { in[i] : i \in { j \in 1..Len(in) : \A k \in (j + 1)..Len(in) : in[k].key # in[j].key } }

Keys(fields) == { e.key : e \in fields }

Get(fields, k) == (CHOOSE e \in fields : e.key = k).val

\* mapstructure.Decode(fields, out): a field is set when its key is there,
\* and the keys of no field are merged into ExtraFields (",remain").
Decode(fields, out) ==
    LET f(k, old) == IF k \in Keys(fields) THEN Get(fields, k) ELSE old
        remain    == { e \in fields : e.key \notin StructKeys }
    IN  [Version     |-> f("version", out.Version),
         Domain      |-> f("domain", out.Domain),
         Repo        |-> f("repo", out.Repo),
         Resources   |-> f("resources", out.Resources),
         MultiGroup  |-> f("multigroup", out.MultiGroup),
         ExtraFields |-> IF remain = {} THEN out.ExtraFields
                         ELSE { e \in out.ExtraFields : e.key \notin Keys(remain) }
                              \cup remain]

Unmarshal(in, out) ==
    LET decoded == Decode(yamlUnmarshal(in), out)
    IN  IF IsV1(decoded) THEN [decoded EXCEPT !.ExtraFields = {}] ELSE decoded

ErrNoExtraFields == Errorf("v1 project configs do not have extra fields", <<>>)

\* EncodeExtraFields(obj): the configuration after the call and the error.
EncodeExtraFields(config, obj) ==
    IF IsV1(config) THEN [config |-> config, err |-> ErrNoExtraFields]
    ELSE [config |-> Decode(yamlUnmarshal(yamlMarshalMap(obj)), config), err |-> NoErr]

\* DecodeExtraFields(obj), on a copy of the Config: what obj is filled with,
\* and the error.
DecodeExtraFields(config) ==
    IF IsV1(config) THEN [config |-> config, obj |-> {}, err |-> ErrNoExtraFields]
    ELSE [config |-> config, obj |-> yamlUnmarshal(yamlMarshalMap(config.ExtraFields)),
          err |-> NoErr]

\* Config{}
EmptyConfig ==
    [Version |-> <<>>, Domain |-> "", Repo |-> "", Resources |-> <<>>,
     MultiGroup |-> FALSE, ExtraFields |-> {}]

MaxAdds == 3

Cruiser == [Group |-> gShip, Version |-> "v1", Kind |-> "Cruiser"]

ConfigGVKs == {Frigate, Cruiser}

\* The configurations a command constructs before it tracks a resource.
NewConfigs ==
    { [EmptyConfig EXCEPT !.Version = v, !.Domain = d.domain, !.Repo = d.repo] :
        v \in {<<>>, Version1, Version2},
        d \in { [domain |-> "", repo |-> ""],
                [domain |-> "example.com", repo |-> "github.com/example/project"] } }

\* The objects plugins encode into the extra fields.
ExtraFieldsObjs ==
    { {Entry("foo", "bar")},
      {Entry("bar", "baz"), Entry("foo", "qux")},
      {Entry("domain", "other.io"), Entry("foo", "bar")} }

\* Project files written by hand.
Documents ==
    { <<>>,
      <<Entry("domain", "example.com"), Entry("version", Version1)>>,
      <<Entry("domain", "example.com"), Entry("resources", <<Frigate>>),
        Entry("version", Version1), Entry("foo", "bar")>>,
      <<Entry("multigroup", TRUE), Entry("resources", <<Cruiser>>),
        Entry("version", Version2), Entry("foo", "bar"), Entry("foo", "baz")>> }

exceptConfig == <<resolverVars, cliVars, insertVars, updateVars, stateVars, pstateVars, pluginVars,
    projectVars>>

Called(op, arg, ret, e, saved, before) ==
    [op |-> op, arg |-> arg, ret |-> ret, err |-> e, before |-> before, saved |-> saved]

ConfigInit ==
    /\ cfgNow \in NewConfigs
    /\ cfgDoc = <<>>
    /\ cfgAdded = <<>>
    /\ cfgLast = Called("new", <<>>, FALSE, NoErr, FALSE, EmptyConfig)
    /\ ResolverIdle /\ CliIdle
    /\ InsertIdle /\ UpdateIdle /\ StateIdle /\ PStateIdle /\ PluginIdle /\ ProjectIdle

CallAddResource(gvk) ==
    LET r == AddResource(cfgNow, gvk)
    IN  /\ Len(cfgAdded) < MaxAdds
        /\ cfgNow' = r.config
        /\ cfgAdded' = Append(cfgAdded, gvk)
        /\ cfgLast' = Called("AddResource", gvk, r.modified, NoErr, FALSE, cfgNow)
        /\ UNCHANGED cfgDoc
        /\ UNCHANGED exceptConfig

\* create api with --resource: the resource is tracked and, if it was not
\* tracked before, the project file is saved.
CallCreateAPI(gvk) ==
    LET r == AddResource(cfgNow, gvk)
    IN  /\ Len(cfgAdded) < MaxAdds
        /\ cfgNow' = r.config
        /\ cfgAdded' = Append(cfgAdded, gvk)
        /\ cfgLast' = Called("create api", gvk, r.modified, NoErr, r.modified, cfgNow)
        /\ cfgDoc' = IF r.modified THEN Marshal(r.config) ELSE cfgDoc
        /\ UNCHANGED exceptConfig

CallHasResource(gvk) ==
    /\ cfgLast' = Called("HasResource", gvk, HasResource(cfgNow, gvk), NoErr, FALSE, cfgNow)
    /\ UNCHANGED <<cfgNow, cfgDoc, cfgAdded>>
    /\ UNCHANGED exceptConfig

CallEncodeExtraFields(obj) ==
    LET r == EncodeExtraFields(cfgNow, obj)
    IN  /\ cfgNow' = r.config
        /\ cfgLast' = Called("EncodeExtraFields", obj, FALSE, r.err, FALSE, cfgNow)
        /\ UNCHANGED <<cfgDoc, cfgAdded>>
        /\ UNCHANGED exceptConfig

CallDecodeExtraFields ==
    LET r == DecodeExtraFields(cfgNow)
    IN  /\ cfgNow' = r.config
        /\ cfgLast' = Called("DecodeExtraFields", r.obj, FALSE, r.err, FALSE, cfgNow)
        /\ UNCHANGED <<cfgDoc, cfgAdded>>
        /\ UNCHANGED exceptConfig

CallMarshal ==
    /\ cfgDoc' = Marshal(cfgNow)
    /\ cfgLast' = Called("Marshal", <<>>, FALSE, NoErr, FALSE, cfgNow)
    /\ UNCHANGED <<cfgNow, cfgAdded>>
    /\ UNCHANGED exceptConfig

\* Unmarshal into a new Config, of a project file written by hand.
CallUnmarshal(in) ==
    /\ cfgNow' = Unmarshal(in, EmptyConfig)
    /\ cfgAdded' = cfgNow'.Resources
    /\ cfgDoc' = in
    /\ cfgLast' = Called("Unmarshal", in, FALSE, NoErr, FALSE, EmptyConfig)
    /\ UNCHANGED exceptConfig

\* Unmarshal into a new Config, of the bytes Marshal has just returned for
\* the Config in memory.
CallUnmarshalMarshalled ==
    /\ cfgLast.op = "Marshal"
    /\ cfgNow' = Unmarshal(cfgDoc, EmptyConfig)
    /\ cfgAdded' = cfgNow'.Resources
    /\ cfgLast' = Called("Unmarshal", cfgDoc, FALSE, NoErr, FALSE, cfgNow)
    /\ UNCHANGED cfgDoc
    /\ UNCHANGED exceptConfig

ConfigNext ==
    \/ \E gvk \in ConfigGVKs : CallAddResource(gvk)
    \/ \E gvk \in ConfigGVKs : CallCreateAPI(gvk)
    \/ \E gvk \in ConfigGVKs : CallHasResource(gvk)
    \/ \E obj \in ExtraFieldsObjs : CallEncodeExtraFields(obj)
    \/ CallDecodeExtraFields
    \/ CallMarshal
    \/ \E in \in Documents : CallUnmarshal(in)
    \/ CallUnmarshalMarshalled

SpecConfig == ConfigInit /\ [][ConfigNext]_vars

(***************************************************************************)
(* Properties of the project configuration.                                *)
(***************************************************************************)
\* The elements of s, each once, in the order they occur first.
RECURSIVE FirstOccurrences(_)
FirstOccurrences(s) ==
    IF s = <<>> THEN <<>>
    ELSE LET front == FirstOccurrences(SubSeq(s, 1, Len(s) - 1))
             last  == s[Len(s)]
         IN  IF \E i \in 1..Len(front) : front[i] = last THEN front
             ELSE Append(front, last)

AddCalled == cfgLast.op \in {"AddResource", "create api"}

\* C11: on a configuration that is not v1, the resources are the GVKs added,
\* each once, in the order they were added first; AddResource returns true
\* exactly when it appended, and changes no other field; HasResource is true
\* of every GVK added; create api saves the project file only when
\* AddResource returned true.
C11_ResourcesTrackedOnceInOrder ==
    ~IsV1(cfgNow) =>
        /\ cfgNow.Resources = FirstOccurrences(cfgAdded)
        /\ \A i \in 1..Len(cfgAdded) : HasResource(cfgNow, cfgAdded[i])
        /\ AddCalled =>
            /\ cfgLast.ret <=>
                   cfgNow.Resources = Append(cfgLast.before.Resources, cfgLast.arg)
            /\ ~cfgLast.ret => cfgNow.Resources = cfgLast.before.Resources
            /\ ~cfgLast.ret <=> HasResource(cfgLast.before, cfgLast.arg)
            /\ [cfgNow EXCEPT !.Resources = <<>>] = [cfgLast.before EXCEPT !.Resources = <<>>]
            /\ cfgLast.saved => cfgLast.ret /\ cfgDoc = Marshal(cfgNow)

\* A GVK was added again after another one, on a configuration that is not
\* v1.
C11_Witness ==
    /\ AddCalled
    /\ ~IsV1(cfgNow)
    /\ ~cfgLast.ret
    /\ Len(cfgNow.Resources) = 2
    /\ cfgLast.arg = cfgNow.Resources[1]

\* C12: on a v1 configuration AddResource returns false and HasResource
\* returns false, EncodeExtraFields and DecodeExtraFields return an error,
\* and none of them changes the configuration.
C12_V1ShortCircuit ==
    IsV1(cfgLast.before) =>
        /\ AddCalled => ~cfgLast.ret /\ cfgNow = cfgLast.before
        /\ cfgLast.op = "HasResource" => ~cfgLast.ret /\ cfgNow = cfgLast.before
        /\ cfgLast.op \in {"EncodeExtraFields", "DecodeExtraFields"} =>
               cfgLast.err # NoErr /\ cfgNow = cfgLast.before

\* HasResource was asked, on a v1 configuration, for a GVK that is in its
\* Resources.
C12_Witness ==
    /\ cfgLast.op = "HasResource"
    /\ IsV1(cfgLast.before)
    /\ \E i \in 1..Len(cfgNow.Resources) : cfgNow.Resources[i] = cfgLast.arg

\* C13: after Unmarshal of a document of version "1" the Resources and the
\* ExtraFields are empty, and Marshal of a v1 configuration writes neither
\* resources nor extra fields.
C13_V1HasNoResourcesNorExtraFields ==
    /\ cfgLast.op = "Unmarshal" /\ IsV1(cfgNow) =>
           cfgNow.Resources = <<>> /\ cfgNow.ExtraFields = {}
    /\ cfgLast.op = "Marshal" /\ IsV1(cfgNow) =>
           \A i \in 1..Len(cfgDoc) : cfgDoc[i].key \in StructKeys \ {"resources"}

Unmarshalled == cfgLast.op = "Unmarshal" /\ IsV2(cfgLast.before)

NL == "\n"

Space == {" ", NL}

\* strings.TrimSpace
RECURSIVE TrimSpace(_)
TrimSpace(s) ==
    IF s = <<>> THEN s
    ELSE IF s[1] \in Space THEN TrimSpace(Tail(s))
    ELSE IF s[Len(s)] \in Space THEN TrimSpace(SubSeq(s, 1, Len(s) - 1))
    ELSE s

\* bufio.Scanner with ScanLines: the lines of the content without their
\* newline; a last line without a newline is a line too.
RECURSIVE ScanLines(_)
ScanLines(content) ==
    IF content = <<>> THEN <<>>
    ELSE LET n == IndexOf(content, NL)
         IN  IF n = 0 THEN <<content>>
             ELSE <<SubSeq(content, 1, n - 1)>> \o ScanLines(SubSeq(content, n + 1, Len(content)))

\* The loop over one slice of values for one line; arr is the array of the
\* slice, n the length the range statement saw and cur the length of the
\* slice stored in the map.  append(vals[:i], vals[i+1:]...) moves the
\* values after i one place down in the array, and the slice stored is
\* one shorter than the one ranged over.
RECURSIVE filterValues(_, _, _, _, _)
filterValues(line, arr, n, cur, i) ==
    IF i > n THEN [arr |-> arr, len |-> cur]
    ELSE IF TrimSpace(line) = TrimSpace(arr[i])
         THEN filterValues(line,
                           [j \in 1..Len(arr) |-> IF j >= i /\ j < n THEN arr[j + 1] ELSE arr[j]],
                           n, n - 1, i + 1)
         ELSE filterValues(line, arr, n, cur, i + 1)

\* filterExistingValues: the slices of the map after the lines were read.
RECURSIVE filterExistingValues(_, _)
filterExistingValues(lines, markerAndValues) ==
    IF lines = <<>> THEN markerAndValues
    ELSE filterExistingValues(Tail(lines),
            [m \in DOMAIN markerAndValues |->
                LET e == markerAndValues[m]
                    r == filterValues(lines[1], e.arr, e.len, e.len, 1)
                IN  [marker |-> e.marker, arr |-> r.arr, len |-> r.len]])

\* The values of the markers of a line, the markers taken in the order the
\* map is ranged over.
RECURSIVE valuesFor(_, _, _)
valuesFor(line, markerAndValues, order) ==
    IF order = <<>> THEN <<>>
    ELSE LET e    == markerAndValues[order[1]]
             vals == SubSeq(e.arr, 1, e.len)
             RECURSIVE concat(_)
             concat(vs) == IF vs = <<>> THEN <<>> ELSE vs[1] \o concat(Tail(vs))
         IN  (IF TrimSpace(line) = TrimSpace(e.marker) THEN concat(vals) ELSE <<>>)
             \o valuesFor(line, markerAndValues, Tail(order))

RECURSIVE writeLines(_, _, _)
writeLines(lines, markerAndValues, order) ==
    IF lines = <<>> THEN <<>>
    ELSE valuesFor(lines[1], markerAndValues, order) \o lines[1] \o <<NL>>
         \o writeLines(Tail(lines), markerAndValues, order)

\* The map of a call: one slice of values for each marker.
Slices(markerAndValues) ==
    [m \in DOMAIN markerAndValues |->
        [marker |-> markerAndValues[m].marker, arr |-> markerAndValues[m].vals,
         len |-> Len(markerAndValues[m].vals)]]

insertStrings(content, markerAndValues, order) ==
    LET lines    == ScanLines(content)
        filtered == filterExistingValues(lines, Slices(markerAndValues))
    IN  writeLines(lines, filtered, order)

MaxLines == 2

MaxVals == 2

MaxInserts == 2

SeqsUpTo(S, n) == UNION { [1..k -> S] : k \in 0..n }

\* The lines of the files: two spellings of the marker "m", and code.
InsertLines == { <<"m">>, <<" ", "m">>, <<"a">>, <<"b">> }

\* The fragments: lines of code, one of them indented, and one fragment of
\* two lines.
InsertValues ==
    { <<"a", NL>>, <<" ", "a", NL>>, <<"b", NL>>, <<"a", NL, "b", NL>> }

RECURSIVE JoinLines(_)
JoinLines(lines) ==
    IF lines = <<>> THEN <<>> ELSE lines[1] \o <<NL>> \o JoinLines(Tail(lines))

InsertContents == { JoinLines(ls) : ls \in SeqsUpTo(InsertLines, MaxLines) }

\* The maps from markers to fragments: the marker "m" with its fragments,
\* alone or with the same marker spelled with a space before it.
InsertMaps ==
    { <<[marker |-> <<"m">>, vals |-> vs]>> : vs \in SeqsUpTo(InsertValues, MaxVals) }
    \cup { <<[marker |-> <<"m">>, vals |-> vs], [marker |-> <<" ", "m">>, vals |-> <<<<"b", NL>>>>]>> :
             vs \in SeqsUpTo(InsertValues, MaxVals) }

exceptInsert == <<resolverVars, cliVars, configVars, updateVars, stateVars, pstateVars, pluginVars,
    projectVars>>

InsertInit ==
    /\ insIn \in [content : InsertContents, markerAndValues : InsertMaps]
    /\ insOut = <<>>
    /\ ResolverIdle /\ CliIdle
    /\ ConfigIdle /\ UpdateIdle /\ StateIdle /\ PStateIdle /\ PluginIdle /\ ProjectIdle

\* insertStrings is called with the fragments, on the content of the file
\* the first time and on what it returned itself after that.
InsertStrings ==
    /\ Len(insOut) < MaxInserts
    /\ \E order \in Perms(DOMAIN insIn.markerAndValues) :
           LET content == IF insOut = <<>> THEN insIn.content ELSE insOut[Len(insOut)]
           IN  insOut' = Append(insOut, insertStrings(content, insIn.markerAndValues, order))
    /\ UNCHANGED insIn
    /\ UNCHANGED exceptInsert

InsertNext == InsertStrings

SpecInsert == InsertInit /\ [][InsertNext]_vars

\* C15: insertStrings applied to what it returned, with the same
\* fragments, returns it unchanged.
C15_InsertionIsIdempotent == Len(insOut) >= 2 => insOut[2] = insOut[1]

\* The fragments left by filterExistingValues for the first call.
Remaining ==
    filterExistingValues(ScanLines(insIn.content), Slices(insIn.markerAndValues))

\* What the first call returns if the fragments are written below the
\* lines of their markers, for one order of the markers.
RECURSIVE writeBelow(_, _, _)
writeBelow(lines, markerAndValues, order) ==
    IF lines = <<>> THEN <<>>
    ELSE lines[1] \o <<NL>> \o valuesFor(lines[1], markerAndValues, order)
         \o writeBelow(Tail(lines), markerAndValues, order)

\* C16: the fragments of a marker are written, in their order, immediately
\* below every line that equals the marker when both are trimmed, and every
\* line of the file is kept, unchanged and in its order.
C16_FragmentsBelowMarker ==
    Len(insOut) >= 1 =>
        \E order \in Perms(DOMAIN insIn.markerAndValues) :
            insOut[1] = writeBelow(ScanLines(insIn.content), Remaining, order)

(***************************************************************************)
(* Update: the update of one file of a universe, the plugins run on the    *)
(* universe, and the write of the file.                                    *)
(*                                                                         *)
(* universe.Files is a slice of pointers: Files holds the places in Heap   *)
(* of the files it points to.                                              *)
(***************************************************************************)
MaxUpdatePlugins == 2

MainPath == "main.go"

AbsentPath == "absent.go"

PathOf(u, i) == u.Heap[u.Files[i]].Path

\* ReplaceFileIfExists: the first file of the path is replaced by add.
ReplaceFileIfExists(u, add) ==
    LET found == { i \in 1..Len(u.Files) : PathOf(u, i) = add.Path }
    IN  IF found = {} THEN [universe |-> u, found |-> FALSE]
        ELSE LET i == CHOOSE j \in found : \A k \in found : j <= k
             IN  [universe |-> [Heap  |-> Append(u.Heap, add),
                                Files |-> [u.Files EXCEPT ![i] = Len(u.Heap) + 1]],
                  found |-> TRUE]

ReplaceFile(u, add) ==
    LET r == ReplaceFileIfExists(u, add)
    IN  [universe |-> r.universe,
         err |-> IF r.found THEN NoErr ELSE Errorf("file not found %q", <<>>)]

\* Run of a plugin on the universe: a plugin that does nothing, one that
\* edits the files of the path in place, one that replaces the file of the
\* path, one that replaces a file the universe does not have, and one that
\* fails.
PluginKinds == {"ok", "edit", "replace", "replaceAbsent", "fail"}

Run(p, u, path) ==
    CASE p = "ok" -> [universe |-> u, err |-> NoErr]
      [] p = "edit" ->
            [universe |-> [u EXCEPT !.Heap =
                              [h \in DOMAIN u.Heap |->
                                  IF u.Heap[h].Path = path
                                     /\ \E i \in 1..Len(u.Files) : u.Files[i] = h
                                  THEN [u.Heap[h] EXCEPT !.Contents = Append(@, "e")]
                                  ELSE u.Heap[h]]],
             err |-> NoErr]
      [] p = "replace" -> ReplaceFile(u, [Path |-> path, Contents |-> <<"r">>])
      [] p = "replaceAbsent" -> ReplaceFile(u, [Path |-> AbsentPath, Contents |-> <<"r">>])
      [] OTHER -> [universe |-> u, err |-> Errorf("plugin failed", <<>>)]

\* The update function of the file.
Fn(fn, contents) ==
    IF fn = "ok" THEN [contents |-> Append(contents, "u"), err |-> NoErr]
    ELSE [contents |-> contents, err |-> Errorf("update failed", <<>>)]

\* The loop over the plugins, from plugin i on.
RECURSIVE runPlugins(_, _, _, _, _)
runPlugins(u, path, plugins, i, steps) ==
    IF i > Len(plugins) THEN [universe |-> u, steps |-> steps, err |-> NoErr]
    ELSE LET r == Run(plugins[i], u, path)
         IN  IF r.err # NoErr
             THEN [universe |-> r.universe, steps |-> Append(steps, <<"run", i>>), err |-> r.err]
             ELSE runPlugins(r.universe, path, plugins, i + 1, Append(steps, <<"run", i>>))

Outcome(u, disk, steps, e) == [universe |-> u, disk |-> disk, steps |-> steps, err |-> e]

\* A variant of updateFile that writes the file before the plugins run and
\* runs them all.
updateFileWriteFirst(u, disk, path, fn, plugins, f, steps) ==
    LET upd == Fn(fn, u.Heap[f].Contents)
        v == [u EXCEPT !.Heap[f].Contents = upd.contents]
    IN  Outcome(v, [disk EXCEPT ![path] = upd.contents],
                steps \o <<<<"fn", 0>>, <<"write", 0>>>>
                \o [i \in 1..Len(plugins) |-> <<"run", i>>],
                upd.err)

\* The rest of Update once universeFile points to the place f of the heap.
updateFile(u, disk, path, fn, plugins, f, steps) ==
    LET upd == Fn(fn, u.Heap[f].Contents)
        v == [u EXCEPT !.Heap[f].Contents = upd.contents]
        r == runPlugins(v, path, plugins, 1, Append(steps, <<"fn", 0>>))
    IN  IF upd.err # NoErr THEN Outcome(u, disk, Append(steps, <<"fn", 0>>), upd.err)
        ELSE IF r.err # NoErr THEN Outcome(r.universe, disk, r.steps, r.err)
        ELSE Outcome(r.universe, [disk EXCEPT ![path] = r.universe.Heap[f].Contents],
                     Append(r.steps, <<"write", 0>>), NoErr)

\* A file that is not on the disk.
NoContents == <<"-">>

Update(u, disk, path, fn, plugins) ==
    LET found == { i \in 1..Len(u.Files) : PathOf(u, i) = path }
    IN  IF found # {}
        THEN updateFile(u, disk, path, fn, plugins,
                        u.Files[CHOOSE j \in found : \A k \in found : j <= k], <<>>)
        ELSE IF disk[path] = NoContents
        THEN Outcome(u, disk, <<<<"read", 0>>>>, Errorf("no such file or directory", <<>>))
        ELSE updateFile([Heap  |-> Append(u.Heap, [Path |-> path, Contents |-> disk[path]]),
                         Files |-> Append(u.Files, Len(u.Heap) + 1)],
                        disk, path, fn, plugins, Len(u.Heap) + 1, <<<<"read", 0>>>>)

ModelFile(path, contents) == [Path |-> path, Contents |-> contents]

\* The universes Update is called with: without files, with the file of
\* the path, and with that file after another one.
Universes ==
    { [Heap |-> <<>>, Files |-> <<>>],
      [Heap |-> <<ModelFile(MainPath, <<"c">>)>>, Files |-> <<1>>],
      [Heap |-> <<ModelFile("types.go", <<"t">>), ModelFile(MainPath, <<"c">>)>>, Files |-> <<1, 2>>] }

\* The disks: with and without the file of the path.
Disks == { [p \in {MainPath} |-> d] : d \in {NoContents, <<"d">>} }

UpdateInputs ==
    [path : {MainPath}, fn : {"ok", "fail"},
     plugins : SeqsUpTo(PluginKinds, MaxUpdatePlugins)]

exceptUpdate == <<resolverVars, cliVars, configVars, insertVars, stateVars, pstateVars, pluginVars,
    projectVars>>

UpdateInit ==
    /\ updUniverse \in Universes
    /\ updDisk \in Disks
    /\ updIn \in UpdateInputs
    /\ updLog = [done |-> FALSE, steps |-> <<>>, err |-> NoErr,
                 universe |-> updUniverse, disk |-> updDisk]
    /\ ResolverIdle /\ CliIdle
    /\ ConfigIdle /\ InsertIdle /\ StateIdle /\ PStateIdle /\ PluginIdle /\ ProjectIdle

CallUpdate ==
    LET r == Update(updUniverse, updDisk, updIn.path, updIn.fn, updIn.plugins)
    IN  /\ ~updLog.done
        /\ updUniverse' = r.universe
        /\ updDisk' = r.disk
        /\ updLog' = [updLog EXCEPT !.done = TRUE, !.steps = r.steps, !.err = r.err]
        /\ UNCHANGED updIn
        /\ UNCHANGED exceptUpdate

UpdateNext == CallUpdate

SpecUpdate == UpdateInit /\ [][UpdateNext]_vars

(***************************************************************************)
(* Properties of Update.                                                   *)
(***************************************************************************)
IsPrefix(s, t) == Len(s) <= Len(t) /\ s = SubSeq(t, 1, Len(s))

InUniverse(u, path) == \E i \in 1..Len(u.Files) : PathOf(u, i) = path

\* The steps of an Update without an error: the read of the file if the
\* universe does not have it, the update function, every plugin once in
\* the order given, the write.
AllSteps ==
    (IF InUniverse(updLog.universe, updIn.path) THEN <<>> ELSE <<<<"read", 0>>>>)
    \o <<<<"fn", 0>>>>
    \o [i \in 1..Len(updIn.plugins) |-> <<"run", i>>]
    \o <<<<"write", 0>>>>

Failing(i) == updIn.plugins[i] \in {"fail", "replaceAbsent"}

\* C17: Update calls the update function first, then every plugin once in
\* the order given, and writes the file last; after an error of the update
\* function or of a plugin, a ReplaceFile of a path the universe does not
\* have included, no other plugin is run and the file is not written.
C17_UpdateThenPluginsThenWrite ==
    updLog.done =>
        /\ IsPrefix(updLog.steps, AllSteps)
        /\ updLog.err = NoErr <=> updLog.steps = AllSteps
        /\ updLog.err = NoErr =>
               updDisk[updIn.path] # updLog.disk[updIn.path]
        /\ updLog.err # NoErr =>
               /\ updDisk = updLog.disk
               /\ \A k \in 1..Len(updLog.steps) : updLog.steps[k][1] # "write"
        /\ updIn.fn = "fail" => \A k \in 1..Len(updLog.steps) : updLog.steps[k][1] # "run"
        /\ \A i \in 1..Len(updIn.plugins) :
               (Failing(i) /\ \E k \in 1..Len(updLog.steps) : updLog.steps[k] = <<"run", i>>) =>
                   /\ updLog.err # NoErr
                   /\ updLog.steps[Len(updLog.steps)] = <<"run", i>>

\* A plugin ran, and the next one replaced a file the universe does not
\* have.
C17_Witness ==
    /\ updLog.done
    /\ Len(updIn.plugins) = 2
    /\ updIn.plugins[2] = "replaceAbsent"
    /\ updLog.steps[Len(updLog.steps)] = <<"run", 2>>
    /\ updLog.err # NoErr

(***************************************************************************)
(* The state of the cli: the files plugins added and deleted, over an      *)
(* afero filesystem, and the flush of them to the disk.                    *)
(*                                                                         *)
(* A map from paths to files is the set of its entries, a filesystem the   *)
(* set of its regular files.  Paths are sequences of characters.           *)
(***************************************************************************)
\* filepath.Clean, for paths with "./" before them and "/" after them.
RECURSIVE Clean(_)
Clean(path) ==
    IF Len(path) >= 2 /\ SubSeq(path, 1, 2) = <<".", "/">> THEN Clean(SubSeq(path, 3, Len(path)))
    ELSE IF Len(path) >= 2 /\ path[Len(path)] = "/" THEN Clean(SubSeq(path, 1, Len(path) - 1))
    ELSE IF path = <<>> THEN <<".">>
    ELSE path

Exists(files, key) == \E e \in files : e.key = key

Lookup(files, key) == CHOOSE e \in files : e.key = key

\* The zero value of file, under a key.
ZeroFile(key) == [key |-> key, Path |-> <<>>, Blob |-> "", deleted |-> FALSE]

\* s.files[key], the zero value if there is no such key.
Index(files, key) == IF Exists(files, key) THEN Lookup(files, key) ELSE ZeroFile(key)

\* s.files[key] = f
Store(files, key, f) ==
    { e \in files : e.key # key }
    \cup {[key |-> key, Path |-> f.Path, Blob |-> f.Blob, deleted |-> f.deleted]}

\* afero.WriteFile
WriteFile(fs, path, blob) ==
    { e \in fs : e.path # Clean(path) } \cup {[path |-> Clean(path), blob |-> blob]}

\* Add: the files and the filesystem after the call.
StateAdd(files, fs, f) ==
    [files |-> Store(files, f.Path, [Path |-> f.Path, Blob |-> f.Blob, deleted |-> FALSE]),
     fs    |-> WriteFile(fs, f.Path, f.Blob)]

\* Delete: the files after the call.
StateDelete(files, path) ==
    IF files = {} THEN files
    ELSE Store(files, Clean(path), [Index(files, Clean(path)) EXCEPT !.deleted = TRUE])

StateHas(files, path) ==
    ~Exists(files, Clean(path)) \/ Lookup(files, Clean(path)).deleted

\* A variant of updateWalkFunc that does not look at the file it replaces.
updateWalkFuncAnew(files, path, data) ==
    Store(files, path, [Path |-> path, Blob |-> data, deleted |-> FALSE])

\* updateWalkFunc, for a regular file the walk has come to.
updateWalkFunc(files, path, data) ==
    Store(files, path,
          [Path |-> path, Blob |-> data,
           deleted |-> IF Exists(files, path) THEN Lookup(files, path).deleted ELSE FALSE])

\* update: afero.Walk over the files of the filesystem.
RECURSIVE stateUpdate(_, _)
stateUpdate(files, fs) ==
    IF fs = {} THEN files
    ELSE LET e == CHOOSE x \in fs : TRUE
         IN  stateUpdate(updateWalkFunc(files, e.path, e.blob), fs \ {e})

\* flush: the loop over the files, in the order the map is ranged over;
\* os.Remove fails for a path that is not on the disk.
RECURSIVE flush(_, _)
flush(entries, disk) ==
    IF entries = <<>> THEN [disk |-> disk, err |-> NoErr]
    ELSE LET e == entries[1]
         IN  IF e.deleted
             THEN IF \E d \in disk : d.path = Clean(e.key)
                  THEN flush(Tail(entries), { d \in disk : d.path # Clean(e.key) })
                  ELSE [disk |-> disk, err |-> Errorf("remove: no such file or directory", <<>>)]
             ELSE flush(Tail(entries), WriteFile(disk, e.key, e.Blob))

pathA == <<"a">>

pathB == <<"b">>

\* The paths Delete and Has are called with.
StatePaths == {pathA, <<".", "/", "a">>, pathB}

\* The files plugins add: clean paths as the scaffolds join them, a path
\* that is not clean, and two blobs.
AddedFiles == [Path : {pathA, <<".", "/", "a">>, pathB}, Blob : {"x", "y"}]

\* The files on the afero filesystem and on the disk before the plugins
\* run.
StateTrees ==
    { {}, {[path |-> pathB, blob |-> "d"]},
      {[path |-> pathA, blob |-> "d"], [path |-> pathB, blob |-> "d"]} }

exceptState == <<resolverVars, cliVars, configVars, insertVars, updateVars, pstateVars, pluginVars,
    projectVars>>

StateCalled(op, path, ret, e) ==
    [op |-> op, path |-> path, ret |-> ret, err |-> e, files |-> stFiles, fs |-> stFs,
     disk |-> stDisk]

StateInit ==
    /\ stFiles = {}
    /\ stFs \in StateTrees
    /\ stDisk \in StateTrees
    /\ stLast = StateCalled("new", <<>>, FALSE, NoErr)
    /\ ResolverIdle /\ CliIdle
    /\ ConfigIdle /\ InsertIdle /\ UpdateIdle /\ PStateIdle /\ PluginIdle /\ ProjectIdle

CallAdd(f) ==
    LET r == StateAdd(stFiles, stFs, f)
    IN  /\ stFiles' = r.files
        /\ stFs' = r.fs
        /\ stLast' = StateCalled("Add", f.Path, FALSE, NoErr)
        /\ UNCHANGED stDisk
        /\ UNCHANGED exceptState

CallDelete(path) ==
    /\ stFiles' = StateDelete(stFiles, path)
    /\ stLast' = StateCalled("Delete", path, FALSE, NoErr)
    /\ UNCHANGED <<stFs, stDisk>>
    /\ UNCHANGED exceptState

CallHas(path) ==
    /\ stLast' = StateCalled("Has", path, StateHas(stFiles, path), NoErr)
    /\ UNCHANGED <<stFiles, stFs, stDisk>>
    /\ UNCHANGED exceptState

CallStateUpdate ==
    /\ stFiles' = stateUpdate(stFiles, stFs)
    /\ stLast' = StateCalled("update", <<>>, FALSE, NoErr)
    /\ UNCHANGED <<stFs, stDisk>>
    /\ UNCHANGED exceptState

CallFlush ==
    \E order \in Perms(stFiles) :
        LET r == flush(order, stDisk)
        IN  /\ stDisk' = r.disk
            /\ stLast' = StateCalled("flush", <<>>, FALSE, r.err)
            /\ UNCHANGED <<stFiles, stFs>>
            /\ UNCHANGED exceptState

StateNext ==
    \/ \E f \in AddedFiles : CallAdd(f)
    \/ \E path \in StatePaths : CallDelete(path)
    \/ \E path \in StatePaths : CallHas(path)
    \/ CallStateUpdate
    \/ CallFlush

SpecState == StateInit /\ [][StateNext]_vars

(***************************************************************************)
(* Properties of the state of the cli.                                     *)
(***************************************************************************)
Tracked(files, path) == Exists(files, Clean(path))

Tombstoned(files, path) == Tracked(files, path) /\ Lookup(files, Clean(path)).deleted

Flushed(files, before, after) ==
    /\ \A e \in files : e.deleted => ~\E d \in after : d.path = e.key
    /\ \A e \in files : ~e.deleted => [path |-> e.key, blob |-> e.Blob] \in after
    /\ \A d \in after : d \in before \/ \E e \in files : e.key = d.path

\* C19: flush removes every tombstoned path and writes every other entry,
\* or returns an error and leaves the disk as it was.
C19_FlushIsAtomic ==
    stLast.op = "flush" =>
        \/ stLast.err = NoErr /\ Flushed(stFiles, stLast.disk, stDisk)
        \/ stLast.err # NoErr /\ stDisk = stLast.disk

(***************************************************************************)
(* The state of the plugins: the files of the filesystem, read by Update.  *)
(***************************************************************************)
HasPrefix(str, prefix) ==
    Len(str) >= Len(prefix) /\ SubSeq(str, 1, Len(prefix)) = prefix

dotGit == <<".", "g", "i", "t">>

\* config.DefaultPath, the project file.
DefaultPath == <<"P", "R", "O", "J", "E", "C", "T">>

ignorePathPrefixes == <<dotGit, DefaultPath>>

\* updateWalkFunc of the plugin state: the Files after the walk came to
\* path.
pluginUpdateWalkFunc(files, path, isDir, data) ==
    IF isDir THEN files
    ELSE IF \E i \in 1..Len(ignorePathPrefixes) : HasPrefix(path, ignorePathPrefixes[i])
    THEN files
    ELSE { e \in files : e.key # path } \cup {[key |-> path, Path |-> path, Blob |-> data]}

\* Update of the plugin state: afero.Walk over the filesystem.
RECURSIVE pluginUpdate(_, _)
pluginUpdate(files, fs) ==
    IF fs = {} THEN files
    ELSE LET e == CHOOSE x \in fs : TRUE
         IN  pluginUpdate(pluginUpdateWalkFunc(files, e.path, e.isDir, e.blob), fs \ {e})

\* The paths of the filesystem: a file of the .git directory, .gitignore,
\* the project file, and a source file in a directory.
gitConfig == dotGit \o <<"/", "c">>

gitIgnore == dotGit \o <<"i", "g", "n", "o", "r", "e">>

apiDir == <<"a", "p", "i">>

apiTypes == apiDir \o <<"/", "t">>

FsFiles == {gitConfig, gitIgnore, DefaultPath, apiTypes}

FsDirs == {[path |-> dotGit, isDir |-> TRUE, blob |-> ""], [path |-> apiDir, isDir |-> TRUE, blob |-> ""]}

FsEntry(path, blob) == [path |-> path, isDir |-> FALSE, blob |-> blob]

exceptPState == <<resolverVars, cliVars, configVars, insertVars, updateVars, stateVars, pluginVars,
    projectVars>>

PStateInit ==
    /\ psFs \in { FsDirs \cup { FsEntry(path, "x") : path \in present } : present \in SUBSET FsFiles }
    /\ psFiles = {}
    /\ psLast = "new"
    /\ ResolverIdle /\ CliIdle
    /\ ConfigIdle /\ InsertIdle /\ UpdateIdle /\ StateIdle /\ PluginIdle /\ ProjectIdle

CallPluginUpdate ==
    /\ psFiles' = pluginUpdate(psFiles, psFs)
    /\ psLast' = "Update"
    /\ UNCHANGED psFs
    /\ UNCHANGED exceptPState

\* A file is written to the filesystem, by a scaffold or by the user.
FsWrite(path, blob) ==
    /\ psFs' = { e \in psFs : e.path # path } \cup {FsEntry(path, blob)}
    /\ psLast' = "write"
    /\ UNCHANGED psFiles
    /\ UNCHANGED exceptPState

\* A file is removed from the filesystem.
FsRemove(path) ==
    /\ \E e \in psFs : e.path = path
    /\ psFs' = { e \in psFs : e.path # path }
    /\ psLast' = "remove"
    /\ UNCHANGED psFiles
    /\ UNCHANGED exceptPState

PStateNext ==
    \/ CallPluginUpdate
    \/ \E path \in FsFiles, blob \in {"x", "y"} : FsWrite(path, blob)
    \/ \E path \in FsFiles : FsRemove(path)

SpecPState == PStateInit /\ [][PStateNext]_vars

InsideGit(path) == path = dotGit \/ HasPrefix(path, dotGit \o <<"/">>)

\* C20: after Update the Files are the regular files of the filesystem,
\* with their content, that are not inside .git and are not the project
\* file, and nothing else.
C20_FilesAreTheFilesystem ==
    psLast = "Update" =>
        psFiles = { [key |-> e.path, Path |-> e.path, Blob |-> e.blob] :
                      e \in { x \in psFs : ~x.isDir /\ ~InsideGit(x.path) /\ x.path # DefaultPath } }

(***************************************************************************)
(* Plugin helpers: NamesEqual, the two ValidateVersion and                 *)
(* filterPluginsByKeys, each called on its own.                            *)
(***************************************************************************)
defaultNameSuffix == <<".", "k", "u", "b", "e", "b", "u", "i", "l", "d", "e", "r", ".", "i", "o">>

\* strings.Contains for a one-character substring.
Contains(s, ch) == IndexOf(s, ch) # 0

\* Names compared by the part before the first "." only.
NamesEqualShort(n1, n2) == GetShortName(n1) = GetShortName(n2)

\* NamesEqual: strings.Compare(n1, n2) == 0 after the suffix is added to a
\* name without a ".".
NamesEqual(n1, n2) ==
    LET q1 == IF ~Contains(n1, ".") THEN n1 \o defaultNameSuffix ELSE n1
        q2 == IF ~Contains(n2, ".") THEN n2 \o defaultNameSuffix ELSE n2
    IN  q1 = q2

\* ValidateVersion of the scaffolds package: TRUE when the version is
\* accepted, that is when it is not empty and semver.ParseTolerant parses it.
ValidateVersionTolerant(version) ==
    /\ version # <<>>
    /\ ParseTolerant(version).ok

nameGo == <<"g", "o">>

nameGoKubebuilder == nameGo \o defaultNameSuffix

nameGoOther == <<"g", "o", ".", "o", "t", "h", "e", "r", ".", "d", "o", "m", "a", "i", "n">>

nameHelm == <<"h", "e", "l", "m">>

nameHelmKubebuilder == nameHelm \o defaultNameSuffix

\* The names given to NamesEqual: the ones of TestNamesEqual, the empty
\* name and the bare suffix.
PluginNames ==
    { nameGo, nameGoKubebuilder, nameGoOther, nameHelm, nameHelmKubebuilder,
      <<>>, defaultNameSuffix }

MaxVersionParts == 3

\* strings.Join(parts, ".")
RECURSIVE JoinDots(_)
JoinDots(parts) ==
    IF parts = <<>> THEN <<>>
    ELSE IF Len(parts) = 1 THEN parts[1]
    ELSE parts[1] \o <<".">> \o JoinDots(Tail(parts))

VersionParts == { <<"0">>, <<"1">>, <<"2">>, <<"0", "1">>, <<"a">>, <<>> }

\* The versions given to the validators: an optional "v", up to
\* MaxVersionParts dot-separated parts, an optional pre-release.
PluginVersions ==
    { pre \o JoinDots(parts) \o suf :
        pre \in {<<>>, <<"v">>},
        parts \in UNION { [1..n -> VersionParts] : n \in 0..MaxVersionParts },
        suf \in {<<>>, <<"-", "a">>, <<"-">>} }

\* The candidates given to filterPluginsByKeys.
FilterPool ==
    { [name |-> nGo,   version |-> v10],
      [name |-> nGoKb, version |-> v10],
      [name |-> nGoEx, version |-> v10],
      [name |-> nGoKb, version |-> v20],
      [name |-> nHmEx, version |-> v10] }

FilterLists ==
    { s \in UNION { [1..n -> FilterPool] : n \in 0..MaxPlugins } :
        \A i, j \in 1..Len(s) : i # j => s[i] # s[j] }

\* cliPluginKeys: a map from the names of the keys to their versions.
FilterKeys ==
    UNION { [names -> {<<>>, v10, v20}] : names \in SUBSET {nGo, nGoKb, nHmEx} }

exceptPlugin == <<resolverVars, cliVars, configVars, insertVars, updateVars, stateVars, pstateVars,
    projectVars>>

\* The call to make: the function and its arguments.
PluginInputs ==
    [fn : {"NamesEqual"}, names : PluginNames \X PluginNames \X PluginNames]
      \cup [fn : {"ValidateVersion"}, version : PluginVersions]
      \cup [fn : {"filterPluginsByKeys"}, versionedPlugins : FilterLists,
            cliPluginKeys : FilterKeys]

PluginInit ==
    /\ plIn \in PluginInputs
    /\ plOut = [op |-> "new"]
    /\ ResolverIdle /\ CliIdle
    /\ ConfigIdle /\ InsertIdle /\ UpdateIdle /\ StateIdle /\ PStateIdle /\ ProjectIdle

\* NamesEqual is called on every pair of three names.
CallNamesEqual ==
    /\ plOut.op = "new"
    /\ plIn.fn = "NamesEqual"
    /\ plOut' = [op |-> "NamesEqual",
                 ret |-> [i \in 1..3 |->
                             [j \in 1..3 |-> NamesEqual(plIn.names[i], plIn.names[j])]]]
    /\ UNCHANGED plIn
    /\ UNCHANGED exceptPlugin

\* Both validators are called on one version.
CallValidateVersion ==
    /\ plOut.op = "new"
    /\ plIn.fn = "ValidateVersion"
    /\ plOut' = [op |-> "ValidateVersion",
                 strict |-> ValidateVersion(plIn.version),
                 tolerant |-> ValidateVersionTolerant(plIn.version)]
    /\ UNCHANGED plIn
    /\ UNCHANGED exceptPlugin

\* filterPluginsByKeys is called; the two maps are ranged over in any order.
CallFilterPluginsByKeys ==
    /\ plOut.op = "new"
    /\ plIn.fn = "filterPluginsByKeys"
    /\ \E order1 \in Perms(DOMAIN plIn.cliPluginKeys),
          order2 \in Perms(DOMAIN plIn.cliPluginKeys) :
           plOut' = [op |-> "filterPluginsByKeys",
                     ret |-> filterPluginsByKeys(plIn.versionedPlugins, plIn.cliPluginKeys,
                                                 order1, order2)]
    /\ UNCHANGED plIn
    /\ UNCHANGED exceptPlugin

PluginNext ==
    \/ CallNamesEqual
    \/ CallValidateVersion
    \/ CallFilterPluginsByKeys

SpecPlugin == PluginInit /\ [][PluginNext]_vars

\* C21: NamesEqual(n1, n2) is true exactly when the two names are the same
\* once ".kubebuilder.io" is appended to each name without a dot. A short name
\* equals its fully-qualified form in the default domain, one short label
\* under two domains is unequal, and the relation is reflexive, symmetric and
\* transitive.
Qualified(name) ==
    IF \E i \in 1..Len(name) : name[i] = "." THEN name ELSE name \o defaultNameSuffix

IsMajorOrMajorMinor(version) ==
    LET parts == SplitN(TrimPrefix(version, "v"), ".", Len(version) + 1)
    IN  Len(parts) \in {1, 2} /\ \A k \in 1..Len(parts) : IsNumeric(parts[k])

CarriesPatchOrPreRelease(version) ==
    \/ Len(SplitN(TrimPrefix(version, "v"), ".", 3)) = 3
    \/ Contains(version, "-")

C22_ValidatorsAgreeUpToPatch ==
    plOut.op = "ValidateVersion" =>
        /\ (plIn.version = <<>> \/ ~ParseTolerant(plIn.version).ok) =>
               (~plOut.strict /\ ~plOut.tolerant)
        /\ IsMajorOrMajorMinor(plIn.version) => (plOut.strict /\ plOut.tolerant)
        /\ CarriesPatchOrPreRelease(plIn.version) => ~plOut.strict
        /\ plOut.strict => plOut.tolerant

\* C23: without keys on the command line filterPluginsByKeys returns the
\* plugins unchanged; otherwise it returns, for each key, the plugin whose
\* name and version equal the key or else the single plugin whose long or
\* short name equals the name of the key (and whose version equals the
\* version of the key, when it has one); when two or more plugins match a key
\* by name only, it returns the error 'ambiguous plugin keys'.
PluginSet(plugins) == { plugins[i] : i \in 1..Len(plugins) }

ExactMatches(versionedPlugins, name, version) ==
    { p \in PluginSet(versionedPlugins) : p.name = name /\ p.version = version }

NameMatches(versionedPlugins, name, version) ==
    { p \in PluginSet(versionedPlugins) :
        /\ name = p.name \/ name = GetShortName(p.name)
        /\ version = <<>> \/ version = p.version }

C23_FilterReturnsTheMatchOfEachKey ==
    plOut.op = "filterPluginsByKeys" =>
        LET ps        == plIn.versionedPlugins
            keys      == plIn.cliPluginKeys
            exact(n)  == ExactMatches(ps, n, keys[n])
            byName(n) == NameMatches(ps, n, keys[n])
            ambiguous == { n \in DOMAIN keys : exact(n) = {} /\ Cardinality(byName(n)) >= 2 }
            expected  == UNION { IF exact(n) # {} THEN exact(n) ELSE byName(n) : n \in DOMAIN keys }
        IN  /\ DOMAIN keys = {} => plOut.ret = [plugins |-> ps, err |-> NoErr]
            /\ (DOMAIN keys # {} /\ ambiguous # {}) =>
                   plOut.ret.err.fmt = "ambiguous plugin keys, possible matches: %s"
            /\ (DOMAIN keys # {} /\ ambiguous = {}) =>
                   /\ plOut.ret.err = NoErr
                   /\ PluginSet(plOut.ret.plugins) = expected

\* C30: what filterPluginsByKeys returns, the set of the plugins or the fact
\* of an error, is the same for every order of the candidates.
FilterOutcome(ret) == [failed |-> ret.err # NoErr, plugins |-> PluginSet(ret.plugins)]

C30_FilterIgnoresCandidateOrder ==
    plOut.op = "filterPluginsByKeys" =>
        \A candidates \in Perms(PluginSet(plIn.versionedPlugins)),
           order1 \in Perms(DOMAIN plIn.cliPluginKeys),
           order2 \in Perms(DOMAIN plIn.cliPluginKeys) :
            FilterOutcome(filterPluginsByKeys(candidates, plIn.cliPluginKeys, order1, order2))
                = FilterOutcome(plOut.ret)

\* C24: New returns an error whenever no plugin given to WithPlugins supports
\* the default project version given to WithDefaultProjectVersion, whatever
\* the project file and --project-version say.
UnknownDefaultProjectVersion ==
    \A i \in 1..Len(opts.plugins) :
        \A k \in 1..Len(opts.plugins[i].supported) :
            opts.plugins[i].supported[k] # opts.defaultProjectVersion

C24_UnknownDefaultVersionFailsNew ==
    (phase # "start" /\ UnknownDefaultProjectVersion) => (phase = "failed" /\ err # NoErr)

\* C25: EncodeExtraFields on a configuration that is not v1 changes
\* ExtraFields only, also when the object has keys named like the fields
\* version, domain, repo, resources or multigroup.
C25_EncodeChangesExtraFieldsOnly ==
    (cfgLast.op = "EncodeExtraFields" /\ ~IsV1(cfgLast.before)) =>
        /\ cfgLast.err = NoErr
        /\ cfgNow.Version = cfgLast.before.Version
        /\ cfgNow.Domain = cfgLast.before.Domain
        /\ cfgNow.Repo = cfgLast.before.Repo
        /\ cfgNow.Resources = cfgLast.before.Resources
        /\ cfgNow.MultiGroup = cfgLast.before.MultiGroup

(***************************************************************************)
(* A v2 project: create api and edit, one command after the other.         *)
(***************************************************************************)
MaxOps == 4

\* editScaffolder.Scaffold: the configuration with the flag, saved.
editScaffold(config, multigroup) == [config EXCEPT !.MultiGroup = multigroup]

exceptProject == <<resolverVars, cliVars, configVars, insertVars, updateVars, stateVars,
    pstateVars, pluginVars>>

\* The project after init: version "2", no resource, a single group.
ProjectInit ==
    /\ pjFile = File([NoConfig EXCEPT !.Version = Version2])
    /\ pjOps = 0
    /\ pjLast = [op |-> "init", err |-> NoErr]
    /\ ResolverIdle /\ CliIdle
    /\ ConfigIdle /\ InsertIdle /\ UpdateIdle /\ StateIdle /\ PStateIdle /\ PluginIdle

\* kubebuilder create api --group --version --kind [--force] [--resource]
\* [--controller]
CreateAPI(gvk, force, doResource, doController) ==
    LET r == RunCreateAPI(pjFile, <<>>, gvk, force, doResource, doController, "none")
    IN  /\ pjOps < MaxOps
        /\ pjFile' = r.file
        /\ pjOps' = pjOps + 1
        /\ pjLast' = [op |-> "create api", err |-> r.err]
        /\ UNCHANGED exceptProject

\* kubebuilder edit --multigroup
Edit(multigroup) ==
    /\ pjOps < MaxOps
    /\ pjFile' = File(editScaffold(pjFile.config, multigroup))
    /\ pjOps' = pjOps + 1
    /\ pjLast' = [op |-> "edit", err |-> NoErr]
    /\ UNCHANGED exceptProject

ProjectNext ==
    \/ \E gvk \in GVKs, force \in BOOLEAN, doResource \in BOOLEAN, doController \in BOOLEAN :
           CreateAPI(gvk, force, doResource, doController)
    \/ \E multigroup \in BOOLEAN : Edit(multigroup)

SpecProject == ProjectInit /\ [][ProjectNext]_vars

\* C26: after any sequence of create api and edit commands on a v2 project,
\* whenever MultiGroup is false all tracked resources have the same group,
\* compared without regard to case.
C26_SingleGroupWhenNotMultiGroup ==
    ~pjFile.config.MultiGroup =>
        \A i, j \in 1..Len(pjFile.config.Resources) :
            EqualFold(pjFile.config.Resources[i].Group, pjFile.config.Resources[j].Group)

\* C27: after an Update without an error, the file on the disk has the
\* Contents of the entry the universe has for the path once every plugin
\* ran, also when a plugin replaced that entry.
C27_DiskIsTheUniverseEntry ==
    (updLog.done /\ updLog.err = NoErr) =>
        /\ InUniverse(updUniverse, updIn.path)
        /\ \A i \in 1..Len(updUniverse.Files) :
               PathOf(updUniverse, i) = updIn.path =>
                   updDisk[updIn.path] = updUniverse.Heap[updUniverse.Files[i]].Contents

\* C28: Delete never adds an entry to the files: a path that is not tracked
\* is not tracked after Delete either, so that a later flush has nothing to
\* remove for it.
C28_DeleteAddsNoEntry ==
    stLast.op = "Delete" =>
        /\ { e.key : e \in stFiles } = { e.key : e \in stLast.files }
        /\ ~Tracked(stLast.files, stLast.path) => ~Tracked(stFiles, stLast.path)

\* C29: Add, Delete and Has use the same key for a path, clean or not: once
\* a file with Path p is added, Has(p) is false, and Delete(p) sets the
\* tombstone of the entry Add made.
C29_OneKeyForAPath ==
    /\ stLast.op = "Has" =>
           \A e \in stFiles : (e.Path = stLast.path /\ ~e.deleted) => ~stLast.ret
    /\ stLast.op = "Delete" =>
           \A e \in stLast.files :
               e.Path = stLast.path => \E x \in stFiles : x.key = e.key /\ x.deleted

====
